---- MODULE Spec2Model ----
(***************************************************************************)
(* Model of the trading engine of dhkakkar/algo-trading-system:            *)
(*   - the portfolio ledger   (backend/app/engine/backtest/portfolio.py)   *)
(*   - the risk manager       (backend/app/engine/live/risk_manager.py)    *)
(*   - the backtest runner    (backend/app/engine/backtest/runner.py)      *)
(*   - the paper runner       (backend/app/engine/paper/runner.py)         *)
(*   - the live runner        (backend/app/engine/live/runner.py)          *)
(*                                                                         *)
(* Money is an integer number of mills (0.001 INR); Cent mills are 0.01    *)
(* INR, the grain of Python's round(x, 2).  Time is an integer number of   *)
(* seconds since IST midnight of day 0.                                    *)
(***************************************************************************)
EXTENDS Integers, Sequences, FiniteSets, TLC

VARIABLES
    mode,        \* which component drives the run: ledger, risk, backtest, paper, live
    now,         \* wall clock, seconds since IST midnight of day 0
    portfolio,   \* Portfolio: cash, positions, trades, equity_curve, orders, total_charges
    hist,        \* history of the update_on_fill calls (observer, not program state)
    risk,        \* RiskManager tracking fields
    rlast,       \* the last validate_order call and its result (observer)
    runner       \* runner state (backtest / paper / live), see RunnerInit

vars == <<mode, now, portfolio, hist, risk, rlast, runner>>

----------------------------------------------------------------------------
(* Bounds of the model *)

MaxFills == 3          \* fills applied directly to the ledger
MaxQty == 2            \* largest order / fill quantity

Symbols == {"A", "B"}
Sides == {"BUY", "SELL"}

----------------------------------------------------------------------------
(* Arithmetic helpers *)

Cent == 10

Abs(x) == IF x < 0 THEN -x ELSE x

Min(a, b) == IF a <= b THEN a ELSE b

Max(a, b) == IF a >= b THEN a ELSE b

\* floor(n / d) for d > 0 and any integer n
FloorDiv(n, d) == IF n >= 0 THEN n \div d ELSE -((-n + d - 1) \div d)

\* round(n / d) to the nearest multiple of g, ties to the even multiple:
\* Python's round(n / d, 2) for g = Cent, computed on the exact quotient.
RoundDivTo(n, d, g) ==
    LET q == FloorDiv(n, d * g)
        r2 == 2 * (n - q * d * g)
    IN  IF r2 < d * g THEN q * g
        ELSE IF r2 > d * g THEN (q + 1) * g
        ELSE IF q % 2 = 0 THEN q * g ELSE (q + 1) * g

\* round(x, 2)
Round2(x) == RoundDivTo(x, 1, Cent)

RECURSIVE SeqSum(_)
SeqSum(s) == IF s = <<>> THEN 0 ELSE Head(s) + SeqSum(Tail(s))

----------------------------------------------------------------------------
(* Portfolio ledger *)

InitialCapital == 100000

NoTrade == [symbol |-> "none"]

\* positions is a Python dict: a list of entries in insertion order, looked
\* up by key.
PosHas(P, sym) == \E i \in 1..Len(P) : P[i].symbol = sym

PosIdx(P, sym) == CHOOSE i \in 1..Len(P) : P[i].symbol = sym

PosGet(P, sym) == P[PosIdx(P, sym)]

PosSet(P, sym, rec) ==
    IF PosHas(P, sym)
    THEN [i \in 1..Len(P) |-> IF P[i].symbol = sym THEN rec ELSE P[i]]
    ELSE Append(P, rec)

PosDel(P, sym) == SelectSeq(P, LAMBDA e : e.symbol # sym)

Portfolio(initial_capital) ==
    [cash |-> initial_capital,
     positions |-> <<>>,
     equity_curve |-> <<>>,
     trades |-> <<>>,
     total_charges |-> 0]

_open_position(pf, fill) ==
    [pf EXCEPT !.positions = PosSet(pf.positions, fill.symbol,
        [symbol |-> fill.symbol,
         quantity |-> fill.quantity,
         avg_price |-> fill.fill_price,
         side |-> IF fill.side = "BUY" THEN "LONG" ELSE "SHORT",
         total_cost |-> fill.fill_price * fill.quantity,
         entry_timestamp |-> fill.timestamp])]

\* total_qty = 0 makes round(total_cost / total_qty, 2) raise
\* ZeroDivisionError; the caller guards on _add_raises.
_add_raises(pf, fill) ==
    PosGet(pf.positions, fill.symbol).quantity + fill.quantity = 0

_add_to_position(pf, fill) ==
    LET pos == PosGet(pf.positions, fill.symbol)
        total_qty == pos.quantity + fill.quantity
        total_cost == pos.total_cost + fill.fill_price * fill.quantity
        \* a negative total_qty keeps the sign of the quotient
        avg == IF total_qty > 0
               THEN RoundDivTo(total_cost, total_qty, Cent)
               ELSE RoundDivTo(-total_cost, -total_qty, Cent)
    IN  [pf EXCEPT !.positions = PosSet(pf.positions, fill.symbol,
            [pos EXCEPT !.quantity = total_qty,
                        !.total_cost = total_cost,
                        !.avg_price = avg])]

_reduce_trade(pf, fill) ==
    LET pos == PosGet(pf.positions, fill.symbol)
        close_qty == Min(fill.quantity, pos.quantity)
        pnl == IF pos.side = "LONG"
               THEN (fill.fill_price - pos.avg_price) * close_qty
               ELSE (pos.avg_price - fill.fill_price) * close_qty
        net_pnl == pnl - fill.commission
    IN  [symbol |-> fill.symbol,
         side |-> pos.side,
         quantity |-> close_qty,
         entry_price |-> pos.avg_price,
         exit_price |-> fill.fill_price,
         pnl |-> Round2(pnl),
         charges |-> Round2(fill.commission),
         net_pnl |-> Round2(net_pnl),
         exit_at |-> fill.timestamp]

\* _reversed_position opened for the whole fill quantity
_reversed_position_full(fill, excess_qty) ==
    [symbol |-> fill.symbol,
     quantity |-> fill.quantity,
     avg_price |-> fill.fill_price,
     side |-> IF fill.side = "BUY" THEN "LONG" ELSE "SHORT",
     total_cost |-> fill.fill_price * fill.quantity,
     entry_timestamp |-> fill.timestamp]

\* _reduce_position: the position opened by the excess quantity of a
\* reversing fill
_reversed_position(fill, excess_qty) ==
    [symbol |-> fill.symbol,
     quantity |-> excess_qty,
     avg_price |-> fill.fill_price,
     side |-> IF fill.side = "BUY" THEN "LONG" ELSE "SHORT",
     total_cost |-> fill.fill_price * excess_qty,
     entry_timestamp |-> fill.timestamp]

_reduce_position(pf, fill) ==
    LET pos == PosGet(pf.positions, fill.symbol)
        close_qty == Min(fill.quantity, pos.quantity)
        remaining_qty == pos.quantity - close_qty
        excess_qty == fill.quantity - close_qty
        cash1 == IF pos.side = "LONG"
                 THEN pf.cash + fill.fill_price * close_qty - fill.commission
                 ELSE pf.cash - (fill.fill_price * close_qty + fill.commission)
        P1 == IF remaining_qty > 0
              THEN PosSet(pf.positions, fill.symbol,
                     [pos EXCEPT !.quantity = remaining_qty,
                                 !.total_cost = pos.avg_price * remaining_qty])
              ELSE PosDel(pf.positions, fill.symbol)
        P2 == IF excess_qty > 0
              THEN PosSet(P1, fill.symbol, _reversed_position(fill, excess_qty))
              ELSE P1
        cash2 == IF excess_qty > 0
                 THEN IF fill.side = "BUY"
                      THEN cash1 - fill.fill_price * excess_qty
                      ELSE cash1 + fill.fill_price * excess_qty
                 ELSE cash1
    IN  [pf EXCEPT !.cash = cash2,
                   !.positions = P2,
                   !.trades = Append(pf.trades, _reduce_trade(pf, fill))]

\* book_cash forgetting the commission
book_cash_nocomm(pf, fill) ==
    [pf EXCEPT !.cash =
        IF fill.side = "BUY"
        THEN pf.cash - fill.fill_price * fill.quantity
        ELSE pf.cash + fill.fill_price * fill.quantity]

\* update_on_fill, open / extend branches: cash pays or receives the turnover
\* and pays the commission
book_cash(pf, fill) ==
    [pf EXCEPT !.cash =
        IF fill.side = "BUY"
        THEN pf.cash - (fill.fill_price * fill.quantity + fill.commission)
        ELSE pf.cash + (fill.fill_price * fill.quantity - fill.commission)]

\* The ledger after update_on_fill(fill).
update_on_fill(pf, fill) ==
    LET is_buy == fill.side = "BUY"
        pf0 == [pf EXCEPT !.total_charges = pf.total_charges + fill.commission]
    IN  IF ~PosHas(pf.positions, fill.symbol)
        THEN book_cash(_open_position(pf0, fill), fill)
        ELSE LET pos_side == PosGet(pf.positions, fill.symbol).side
             IN  IF (is_buy /\ pos_side = "LONG") \/ (~is_buy /\ pos_side = "SHORT")
                 THEN book_cash(_add_to_position(pf0, fill), fill)
                 ELSE _reduce_position(pf0, fill)

\* The value update_on_fill(fill) returns: the Trade, or None.
update_on_fill_ret(pf, fill) ==
    IF ~PosHas(pf.positions, fill.symbol) THEN NoTrade
    ELSE LET pos_side == PosGet(pf.positions, fill.symbol).side
         IN  IF (fill.side = "BUY" /\ pos_side = "LONG")
                \/ (fill.side = "SELL" /\ pos_side = "SHORT")
             THEN NoTrade
             ELSE _reduce_trade(pf, fill)

\* update_on_fill raises (ZeroDivisionError in _add_to_position).
update_on_fill_raises(pf, fill) ==
    /\ PosHas(pf.positions, fill.symbol)
    /\ LET pos_side == PosGet(pf.positions, fill.symbol).side
       IN  (fill.side = "BUY" /\ pos_side = "LONG")
           \/ (fill.side = "SELL" /\ pos_side = "SHORT")
    /\ _add_raises(pf, fill)

\* current_prices is a dict: a function on the set of symbols that have a price.
get_portfolio_value(pf, current_prices) ==
    LET value(pos) ==
            LET price == IF pos.symbol \in DOMAIN current_prices
                         THEN current_prices[pos.symbol] ELSE pos.avg_price
            IN  IF pos.side = "LONG" THEN price * pos.quantity
                ELSE -(price * pos.quantity)
    IN  pf.cash + SeqSum([i \in 1..Len(pf.positions) |-> value(pf.positions[i])])

record_equity(pf, timestamp, current_prices) ==
    [pf EXCEPT !.equity_curve = Append(pf.equity_curve,
        [timestamp |-> timestamp,
         equity |-> Round2(get_portfolio_value(pf, current_prices))])]

\* close_fill that always sells, whatever the side of the position
close_fill_sell(pos, current_prices, timestamp) ==
    [symbol |-> pos.symbol,
     side |-> "SELL",
     quantity |-> pos.quantity,
     fill_price |-> IF pos.symbol \in DOMAIN current_prices
                    THEN current_prices[pos.symbol] ELSE pos.avg_price,
     commission |-> 0,
     timestamp |-> timestamp]

close_fill(pos, current_prices, timestamp) ==
    [symbol |-> pos.symbol,
     side |-> IF pos.side = "LONG" THEN "SELL" ELSE "BUY",
     quantity |-> pos.quantity,
     fill_price |-> IF pos.symbol \in DOMAIN current_prices
                    THEN current_prices[pos.symbol] ELSE pos.avg_price,
     commission |-> 0,
     timestamp |-> timestamp]

\* close_all_positions: the loop over the keys present at entry, in order.
\* Returns [pf |-> ledger afterwards, closed |-> list of returned trades].
RECURSIVE close_loop(_, _, _, _, _)
close_loop(pf, symbols, closed, current_prices, timestamp) ==
    IF symbols = <<>> THEN [pf |-> pf, closed |-> closed]
    ELSE LET fill == close_fill(PosGet(pf.positions, Head(symbols)),
                                current_prices, timestamp)
             trade == update_on_fill_ret(pf, fill)
         IN  close_loop(update_on_fill(pf, fill), Tail(symbols),
                        IF trade # NoTrade THEN Append(closed, trade) ELSE closed,
                        current_prices, timestamp)

close_all_positions(pf, current_prices, timestamp) ==
    close_loop(pf, [i \in 1..Len(pf.positions) |-> pf.positions[i].symbol],
               <<>>, current_prices, timestamp)

----------------------------------------------------------------------------
(* History of the calls made on the ledger (observer state) *)

NoFill == [symbol |-> "none"]

NoPos == [symbol |-> "none"]

HistInit ==
    [nfills |-> 0,            \* update_on_fill calls made by ApplyFill
     buy_turnover |-> 0,      \* sum of price*qty over all BUY fills
     sell_turnover |-> 0,     \* sum of price*qty over all SELL fills
     commission |-> 0,        \* sum of the commissions of all fills
     op |-> "none",           \* last ledger operation
     fill |-> NoFill,         \* argument of the last update_on_fill
     pre_pos |-> NoPos,       \* the symbol's position before that call
     pre_npos |-> 0,          \* open positions before the last operation
     pre_ntrades |-> 0,       \* len(trades) before the last operation
     pre_charges |-> 0,       \* total_charges before the last operation
     nret |-> 0]              \* number of trades the last operation returned

Tally(h, fill) ==
    [h EXCEPT !.buy_turnover = @ + (IF fill.side = "BUY"
                                    THEN fill.fill_price * fill.quantity ELSE 0),
              !.sell_turnover = @ + (IF fill.side = "SELL"
                                     THEN fill.fill_price * fill.quantity ELSE 0),
              !.commission = @ + fill.commission]

RECURSIVE TallyAll(_, _)
TallyAll(h, fills) ==
    IF fills = <<>> THEN h ELSE TallyAll(Tally(h, Head(fills)), Tail(fills))

\* hist after update_on_fill(fill) on ledger pf
HistFill(h, pf, fill) ==
    [Tally(h, fill) EXCEPT
        !.op = "fill",
        !.fill = fill,
        !.pre_pos = IF PosHas(pf.positions, fill.symbol)
                    THEN PosGet(pf.positions, fill.symbol) ELSE NoPos,
        !.pre_npos = Len(pf.positions),
        !.pre_ntrades = Len(pf.trades),
        !.pre_charges = pf.total_charges,
        !.nret = IF update_on_fill_ret(pf, fill) = NoTrade THEN 0 ELSE 1]

\* hist after close_all_positions(current_prices, timestamp) on ledger pf
HistClose(h, pf, current_prices, timestamp) ==
    [TallyAll(h, [i \in 1..Len(pf.positions) |->
                    close_fill(pf.positions[i], current_prices, timestamp)])
     EXCEPT
        !.op = "close_all",
        !.fill = NoFill,
        !.pre_pos = NoPos,
        !.pre_npos = Len(pf.positions),
        !.pre_ntrades = Len(pf.trades),
        !.pre_charges = pf.total_charges,
        !.nret = Len(close_all_positions(pf, current_prices, timestamp).closed)]

----------------------------------------------------------------------------
(* Sets of inputs *)

LedgerPrices == {100, 120}

Commissions == {0, Cent}

\* dicts symbol -> price, defined on any subset of the symbols
PriceDicts(prices) == UNION {[S -> prices] : S \in SUBSET Symbols}


----------------------------------------------------------------------------
(* Clock *)

DaySeconds == 24 * 3600

MARKET_OPEN_HOUR == 9
MARKET_OPEN_MINUTE == 15
MARKET_CLOSE_HOUR == 15
MARKET_CLOSE_MINUTE == 30

\* strftime("%Y-%m-%d") of an instant: the number of its IST day
DateOf(t) == t \div DaySeconds

TimeOfDay(t) == t % DaySeconds

----------------------------------------------------------------------------
(* Risk manager *)

\* RiskManager.__init__: the risk_config of the run
RiskConfig ==
    [max_position_size |-> 1,
     max_order_value |-> 500,
     daily_loss_limit |-> 30,
     max_open_positions |-> 1,
     max_orders_per_minute |-> 2]

RiskManager(enforce_market_hours) ==
    [enforce_market_hours |-> enforce_market_hours,
     _daily_pnl |-> 0,
     _order_timestamps |-> <<>>,
     _current_positions_count |-> 0,
     _daily_date |-> -1]

reset_daily(rm, t) ==
    [rm EXCEPT !._daily_pnl = 0,
               !._order_timestamps = <<>>,
               !._daily_date = DateOf(t)]

update_pnl(rm, t, realized_pnl) ==
    LET rm1 == IF DateOf(t) # rm._daily_date THEN reset_daily(rm, t) ELSE rm
    IN  [rm1 EXCEPT !._daily_pnl = @ + realized_pnl]

update_position_count(rm, count) ==
    [rm EXCEPT !._current_positions_count = count]

\* The six checks of validate_order, as the code tests them on the manager
\* rm1 it has after the date check.  Each is TRUE when the order FAILS it.
FailsMarketHours(rm1, t) ==
    /\ rm1.enforce_market_hours
    /\ \/ TimeOfDay(t) < MARKET_OPEN_HOUR * 3600 + MARKET_OPEN_MINUTE * 60
       \/ TimeOfDay(t) > MARKET_CLOSE_HOUR * 3600 + MARKET_CLOSE_MINUTE * 60

FailsPositionSize(o) == o.quantity > RiskConfig.max_position_size

\* price None and price 0 are both "no estimate": the check is skipped
FailsOrderValue(o) ==
    o.price > 0 /\ o.price * o.quantity > RiskConfig.max_order_value

FailsDailyLoss(rm1) == rm1._daily_pnl < -RiskConfig.daily_loss_limit

FailsOpenPositions(rm1, o) ==
    /\ o.side = "BUY"
    /\ rm1._current_positions_count >= RiskConfig.max_open_positions
    /\ ~\E i \in 1..Len(o.current_positions) :
           /\ o.current_positions[i].symbol = o.symbol
           /\ o.current_positions[i].side = "SHORT"

\* RecentTimestamps keeping the timestamp that is exactly 60 s old
RecentTimestamps_inclusive(rm1, t) ==
    SelectSeq(rm1._order_timestamps, LAMBDA ts : ts >= t - 60)

RecentTimestamps(rm1, t) ==
    SelectSeq(rm1._order_timestamps, LAMBDA ts : ts > t - 60)

FailsRateLimit(rm1, t) ==
    Len(RecentTimestamps(rm1, t)) >= RiskConfig.max_orders_per_minute

\* validate_order testing the order value before the trading hours
validate_order_reordered(rm, t, o) ==
    LET rm1 == IF DateOf(t) # rm._daily_date THEN reset_daily(rm, t) ELSE rm
        rm2 == [rm1 EXCEPT !._order_timestamps = RecentTimestamps(rm1, t)]
    IN  IF FailsOrderValue(o)
        THEN [rm |-> rm1, allowed |-> FALSE, reason |-> "order_value"]
        ELSE IF FailsMarketHours(rm1, t)
        THEN [rm |-> rm1, allowed |-> FALSE, reason |-> "market_closed"]
        ELSE IF FailsPositionSize(o)
        THEN [rm |-> rm1, allowed |-> FALSE, reason |-> "position_size"]
        ELSE IF FailsDailyLoss(rm1)
        THEN [rm |-> rm1, allowed |-> FALSE, reason |-> "daily_loss"]
        ELSE IF FailsOpenPositions(rm1, o)
        THEN [rm |-> rm1, allowed |-> FALSE, reason |-> "max_positions"]
        ELSE IF FailsRateLimit(rm1, t)
        THEN [rm |-> rm2, allowed |-> FALSE, reason |-> "rate_limit"]
        ELSE [rm |-> [rm2 EXCEPT !._order_timestamps = Append(@, t)],
              allowed |-> TRUE, reason |-> "none"]

\* validate_order at instant t for order o = [symbol, side, quantity, price,
\* current_positions]: [rm |-> manager afterwards, allowed, reason]
validate_order(rm, t, o) ==
    LET rm1 == IF DateOf(t) # rm._daily_date THEN reset_daily(rm, t) ELSE rm
        rm2 == [rm1 EXCEPT !._order_timestamps = RecentTimestamps(rm1, t)]
    IN  IF FailsMarketHours(rm1, t)
        THEN [rm |-> rm1, allowed |-> FALSE, reason |-> "market_closed"]
        ELSE IF FailsPositionSize(o)
        THEN [rm |-> rm1, allowed |-> FALSE, reason |-> "position_size"]
        ELSE IF FailsOrderValue(o)
        THEN [rm |-> rm1, allowed |-> FALSE, reason |-> "order_value"]
        ELSE IF FailsDailyLoss(rm1)
        THEN [rm |-> rm1, allowed |-> FALSE, reason |-> "daily_loss"]
        ELSE IF FailsOpenPositions(rm1, o)
        THEN [rm |-> rm1, allowed |-> FALSE, reason |-> "max_positions"]
        ELSE IF FailsRateLimit(rm1, t)
        THEN [rm |-> rm2, allowed |-> FALSE, reason |-> "rate_limit"]
        ELSE [rm |-> [rm2 EXCEPT !._order_timestamps = Append(@, t)],
              allowed |-> TRUE, reason |-> "none"]

----------------------------------------------------------------------------
(* Observer of the validate_order calls *)

NoOrder == [symbol |-> "none"]

RlastInit ==
    [n |-> 0,               \* steps taken on the risk manager
     order |-> NoOrder,     \* argument of the last validate_order call
     t |-> 0,               \* instant of that call
     pre |-> RiskManager(TRUE),   \* the manager before that call
     allowed |-> FALSE,
     reason |-> "none",
     accepted |-> <<>>,     \* instants of all accepted orders, never cleared
     reset_mark |-> 0,      \* Len(accepted) when reset_daily last ran
     recent |-> 0,          \* accepted orders within 60 s before the last call
     recent_since_reset |-> 0,  \* ... of them accepted after the last reset
     nrate |-> 0]           \* calls rejected for the rate so far

CountRecent(times, from, t) ==
    Cardinality({i \in (from + 1)..Len(times) : times[i] > t - 60})

\* rlast after the call validate_order(t, o) on manager rm
RlastCall(rl, rm, t, o) ==
    LET res == validate_order(rm, t, o)
        resets == DateOf(t) # rm._daily_date
        mark == IF resets THEN Len(rl.accepted) ELSE rl.reset_mark
    IN  [n |-> rl.n + 1,
         order |-> o,
         t |-> t,
         pre |-> rm,
         allowed |-> res.allowed,
         reason |-> res.reason,
         accepted |-> IF res.allowed THEN Append(rl.accepted, t) ELSE rl.accepted,
         reset_mark |-> mark,
         recent |-> CountRecent(rl.accepted, 0, t),
         recent_since_reset |-> CountRecent(rl.accepted, mark, t),
         nrate |-> IF res.reason = "rate_limit" THEN rl.nrate + 1 ELSE rl.nrate]

----------------------------------------------------------------------------
(* Bounds of the risk-manager driver *)

MaxRiskSteps == 5

ClockSteps == {10, 30, 60}

\* a run may start shortly before the market opens, shortly before it closes
\* or shortly before IST midnight
StartTimes == {9 * 3600 + 15 * 60 - 10, 15 * 3600 + 30 * 60 - 20, 24 * 3600 - 30}

RiskPrices == {0, 100, 600}

PositionLists ==
    {<<>>, <<[symbol |-> "A", side |-> "SHORT"]>>, <<[symbol |-> "A", side |-> "LONG"]>>}

PnlSteps == {-40, 20}

----------------------------------------------------------------------------
(* Bar-based fill simulator (backtest) *)

\* slippage_percent of the run's config, in hundredths of a percent: the run
\* is configured with 0.5 (the default 0.05 is 5), which at the prices of
\* BarSet is more than the rounding to paise takes back
SlippageBp100 == 50

\* _apply_slippage: round(price * (1 +- slippage_pct), 2)
_apply_slippage(price, side) ==
    IF side = "BUY"
    THEN RoundDivTo(price * (10000 + SlippageBp100), 10000, Cent)
    ELSE RoundDivTo(price * (10000 - SlippageBp100), 10000, Cent)

\* calculate_charges: the rates are held as integers in units of 1e-8, the
\* brokerage cap of Rs 20 is 20000 mills
calculate_charges(exchange, side, quantity, price, product) ==
    LET turnover == quantity * price
        is_buy == side = "BUY"
        is_intraday == product = "MIS"
        capped == is_intraday /\ turnover * 3 > 20000 * 10000
        brokerage_rate == IF is_intraday /\ ~capped THEN 30000 ELSE 0
        stt_rate == IF is_intraday THEN (IF is_buy THEN 0 ELSE 25000) ELSE 100000
        txn_rate == IF exchange = "BSE" THEN 3750 ELSE 3450
        \* gst = 0.18 * (brokerage + exchange_txn); the division is exact
        gst_rate == (18 * (brokerage_rate + txn_rate)) \div 100
        sebi_rate == 100
        stamp_rate == IF is_buy THEN 15000 ELSE 0
        rate == brokerage_rate + stt_rate + txn_rate + gst_rate + sebi_rate + stamp_rate
        \* the capped brokerage and the GST on it, a whole number of paise
        fixed == IF capped THEN 20000 + (18 * 20000) \div 100 ELSE 0
    IN  fixed + RoundDivTo(turnover * rate, 100000000, Cent)

NoBar == [open |-> 0, high |-> 0, low |-> 0, close |-> 0, missing |-> TRUE]

\* variant of _get_base_price that takes the close in both modes
_get_base_price_close(fill_at, bar) ==
    IF bar.missing THEN 0 ELSE bar.close

\* _get_base_price: next bar's open (next_open) or current bar's close; the
\* runner passes the bar it is on as both bars in next_open mode.  0 is None.
_get_base_price(fill_at, bar) ==
    IF bar.missing THEN 0
    ELSE IF fill_at = "next_open" THEN bar.open ELSE bar.close

_create_fill(order, fill_price, timestamp) ==
    [symbol |-> order.symbol,
     side |-> order.side,
     quantity |-> order.quantity,
     fill_price |-> Round2(fill_price),
     commission |-> calculate_charges("NSE", order.side, order.quantity,
                                      fill_price, order.product),
     timestamp |-> timestamp]

_fill_market(order, fill_at, bar, timestamp) ==
    IF _get_base_price(fill_at, bar) = 0 THEN NoFill
    ELSE _create_fill(order, _apply_slippage(_get_base_price(fill_at, bar), order.side),
                      timestamp)

\* _get_execution_bar: the runner passes the bar it is on as current_bar and,
\* in next_open mode, as next_bar too, so both modes evaluate that bar
_get_execution_bar(fill_at, bar) ==
    IF fill_at = "next_open" THEN bar ELSE bar

\* a lookup exec_bar["low"] / exec_bar["high"] on the empty dict that
\* get_current_bar returns for a symbol without data raises KeyError
KeyError == [symbol |-> "KeyError"]

\* _place_order: trigger_price = price for SL and SL-M, else None (0)
trigger_price(order) ==
    IF order.order_type \in {"SL", "SL-M"} THEN order.price ELSE 0

\* _fill_limit; a price of 0 is None
_fill_limit(order, fill_at, bar, timestamp) ==
    LET exec_bar == _get_execution_bar(fill_at, bar)
    IN  IF order.price = 0 THEN NoFill
        ELSE IF exec_bar.missing THEN KeyError
        ELSE IF order.side = "BUY"
        THEN IF exec_bar.low <= order.price
             THEN _create_fill(order, Min(order.price, exec_bar.open), timestamp)
             ELSE NoFill
        ELSE IF exec_bar.high >= order.price
             THEN _create_fill(order, Max(order.price, exec_bar.open), timestamp)
             ELSE NoFill

\* _fill_stop_loss: triggered by the bar's range, then a limit at order.price
_fill_stop_loss(order, fill_at, bar, timestamp) ==
    LET exec_bar == _get_execution_bar(fill_at, bar)
        trigger == trigger_price(order)
        limit_price == IF order.price # 0 THEN order.price ELSE trigger
    IN  IF trigger = 0 THEN NoFill
        ELSE IF exec_bar.missing THEN KeyError
        ELSE IF order.side = "BUY"
        THEN IF exec_bar.high >= trigger /\ exec_bar.low <= limit_price
             THEN _create_fill(order, Min(limit_price, Max(exec_bar.open, trigger)),
                               timestamp)
             ELSE NoFill
        ELSE IF exec_bar.low <= trigger /\ exec_bar.high >= limit_price
             THEN _create_fill(order, Max(limit_price, Min(exec_bar.open, trigger)),
                               timestamp)
             ELSE NoFill

\* _fill_stop_loss_market: triggered, it fills at the worse of open and
\* trigger, with slippage
_fill_stop_loss_market(order, fill_at, bar, timestamp) ==
    LET exec_bar == _get_execution_bar(fill_at, bar)
        trigger == trigger_price(order)
    IN  IF trigger = 0 THEN NoFill
        ELSE IF exec_bar.missing THEN KeyError
        ELSE IF order.side = "BUY"
        THEN IF exec_bar.high >= trigger
             THEN _create_fill(order,
                      _apply_slippage(Max(exec_bar.open, trigger), order.side), timestamp)
             ELSE NoFill
        ELSE IF exec_bar.low <= trigger
             THEN _create_fill(order,
                      _apply_slippage(Min(exec_bar.open, trigger), order.side), timestamp)
             ELSE NoFill

\* execute_order: dispatch on the order type
execute_order(order, fill_at, bar, timestamp) ==
    IF order.order_type = "MARKET" THEN _fill_market(order, fill_at, bar, timestamp)
    ELSE IF order.order_type = "LIMIT" THEN _fill_limit(order, fill_at, bar, timestamp)
    ELSE IF order.order_type = "SL" THEN _fill_stop_loss(order, fill_at, bar, timestamp)
    ELSE IF order.order_type = "SL-M"
    THEN _fill_stop_loss_market(order, fill_at, bar, timestamp)
    ELSE _fill_market(order, fill_at, bar, timestamp)

----------------------------------------------------------------------------
(* Bounds and inputs of the runners *)

MaxBars == 3           \* bars of a backtest
MaxCalls == 1          \* buy / sell calls a strategy makes in one callback
MaxOrders == 3         \* buy / sell calls a strategy makes in one run

RunnerSymbol == "A"

BarSet ==
    {[open |-> 6000, high |-> 6100, low |-> 5900, close |-> 6002, missing |-> FALSE],
     [open |-> 6200, high |-> 6300, low |-> 6100, close |-> 6260, missing |-> FALSE]}

\* bars the data handler hands to a backtest: in a run over several
\* instruments get_current_bar returns {} for a symbol without a row at the
\* current timestamp
BacktestBars == BarSet \cup {NoBar}

\* order types of buy / sell, and the price passed with a LIMIT, SL or SL-M
\* order (0 is None); a strategy computes the price, so it need not lie on
\* the paise grid
OrderTypes == {"MARKET", "LIMIT", "SL", "SL-M"}

OrderPrices == {0, 5950, 6206}

\* what one buy / sell call of a strategy asks for
OrderRequests(order_types) ==
    {r \in [order_type : order_types, price : OrderPrices] :
        r.order_type = "MARKET" => r.price = 0}

\* quantities a strategy may pass to buy / sell: nothing in the Context API
\* refuses a quantity of zero
OrderQuantities == 0..MaxQty

MaxQuotes == 3         \* quotes delivered to a paper or live runner
MaxOps == 2            \* pause / resume / shutdown / start calls on a session
MaxSuspended == 1      \* on_market_data coroutines suspended at one time
MaxCancels == 1        \* cancel_order calls a strategy makes in one run

\* timeframe "1m" of the paper session
_tf_seconds == 60

\* paper and live sessions start at 10:00 IST
SessionStart == 10 * 3600

\* seconds between the end of one on_market_data call and the next quote
QuoteGaps == {0, 40}

\* ... in a live session, where the quotes come at a steady pace
LiveQuoteGap == 40

PaperPrices == {6000, 6200}

\* prices at which the broker reports a live order filled
LivePrices == {50, 100}

\* last traded price the live quotes carry
LiveQuotePrice == 100

\* time_locks of the run's parameters: none, or one window 10:01 - 10:02
TimeLockConfigs ==
    {<<>>, <<[start |-> <<10, 1>>, end |-> <<10, 2>>]>>}

\* timestamp of bar i of a backtest on 1-minute bars
BarTimestamp(i) == SessionStart + i * _tf_seconds

\* eod_square_off_time of the run's parameters
EodTimes == {<<10, 1>>, <<10, 2>>}

\* the condition of the end-of-day square-off: a cutoff is configured, the IST
\* (hour, minute) of the bar or quote is at or after it, and no square-off has
\* run on that date
eod_due(eod_time, t, last_eod_date) ==
    /\ eod_time # <<>>
    /\ (TimeOfDay(t) \div 3600) * 60 + (TimeOfDay(t) % 3600) \div 60
           >= eod_time[1] * 60 + eod_time[2]
    /\ DateOf(t) # last_eod_date

\* ids of the pending orders of a list of the paper runner
PendingIds(orders) ==
    {orders[k].order_id : k \in {j \in 1..Len(orders) : orders[j].status = "pending"}}

\* the pending orders of a list of the backtest, by the number of the buy /
\* sell call that placed them
PendingSeqs(orders) ==
    {orders[k].seq : k \in {j \in 1..Len(orders) : orders[j].status = "pending"}}

\* ... with the end of the window locked as well
_is_time_locked_closed(locks, t) ==
    LET bar_time == (TimeOfDay(t) \div 3600) * 60 + (TimeOfDay(t) % 3600) \div 60
    IN  \E k \in 1..Len(locks) :
           /\ locks[k].start[1] * 60 + locks[k].start[2] <= bar_time
           /\ bar_time <= locks[k].end[1] * 60 + locks[k].end[2]

\* _is_time_locked: (sh, sm) <= (hour, minute) < (eh, em) for some window
_is_time_locked(locks, t) ==
    LET bar_time == (TimeOfDay(t) \div 3600) * 60 + (TimeOfDay(t) % 3600) \div 60
    IN  \E k \in 1..Len(locks) :
           /\ locks[k].start[1] * 60 + locks[k].start[2] <= bar_time
           /\ bar_time < locks[k].end[1] * 60 + locks[k].end[2]

----------------------------------------------------------------------------
(* Runner state *)

EmptyDict == [x \in {} |-> 0]

RunnerInit ==
    [pc |-> "created",          \* position of the runner in its loop / handler
     cb |-> "none",             \* strategy callback that is executing
     ncalls |-> 0,              \* buy / sell calls made in that callback
     norders |-> 0,             \* buy / sell calls made in the whole run
     fill_at |-> "next_open",   \* config fill_at
     bar_index |-> -1,          \* data_handler._current_index
     bar |-> NoBar,             \* current bar of the symbol
     order_queue |-> <<>>,      \* _order_queue
     pending_orders |-> <<>>,   \* _pending_orders (backtest)
     idx |-> 0,                 \* loop index of the order loop under way
     still_pending |-> <<>>,    \* still_pending of the order loop under way
     status |-> "none",         \* status of the result of run()
     running |-> FALSE,         \* _running (paper, live)
     paused |-> FALSE,          \* _paused (paper, live)
     nstop |-> 0,               \* calls of strategy.on_stop
     stopped |-> FALSE,         \* shutdown / square_off_all has returned
     open_at_stop |-> 0,        \* ... positions the ledger held when it returned
     ops |-> 0,                 \* lifecycle calls made on the runner
     after_stop |-> {},         \* what happened on the stopped runner since
     suspended |-> <<>>,        \* paper: on_market_data coroutines suspended
                                \* at an await, with their local variables
     detached |-> FALSE,        \* paper: the list the order loop iterates is
                                \* no longer the one _order_queue refers to
     iter_list |-> <<>>,        \* ... that list
     prices |-> EmptyDict,      \* _current_prices (broker prices in paper)
     current_bar |-> NoBar,     \* _current_bars[symbol] (paper)
     bar_start |-> 0,           \* ... its bar_start
     bar_completed |-> FALSE,   \* bar_completed of the quote being handled
     pending_broker_orders |-> <<>>,  \* live: orders placed at the broker
     poll_len |-> 0,            \* live: size of that dict when its loop began
     completed_ids |-> <<>>,    \* live: completed_ids of the polling loop
     next_id |-> 0,             \* live: order ids the broker has handed out
     nquotes |-> 0,             \* quotes delivered to on_market_data
     handled |-> FALSE,         \* the last on_market_data call ran to its end
     naccepted |-> 0,           \* live: orders validate_order accepted
     nplace |-> 0,              \* live: calls of executor.place_order
     last_accepted |-> NoOrder, \* live: the last order validate_order accepted
     last_place |-> NoOrder,    \* live: the last order given to place_order
     last_sent |-> FALSE,       \* live: the last buy / sell called place_order
     filled_ids |-> <<>>,       \* paper, live: order ids whose fill was applied, one
                                \* entry per update_on_fill / on_order_fill
     time_locks |-> <<>>,       \* _time_locks (backtest, paper)
     order_types |-> {"MARKET"},  \* backtest: order types the strategy uses
     symbols |-> {RunnerSymbol},  \* paper: instruments of the session
     bar_start_2nd |-> -1,      \* paper: bar_start of _current_bars[symbol]
                                \* for the session's other instrument
     quote_fill |-> NoFill,     \* what try_fill_order made of the order and
                                \* quote that last_eval records for a bar
     ncancels |-> 0,            \* cancel_order calls made in the whole run
     last_cancel |-> [order_id |-> -1],  \* the last cancel_order call: its
                                \* argument, its result, whether an order with
                                \* that id was awaiting a fill, whether the
                                \* call changed a queue
     cancelled |-> {},          \* seq of the orders cancel_order removed
     config |-> {},             \* keys the config dict of the run supplies
     gaps |-> TRUE,             \* backtest: the data has bars without OHLC
     keep_history |-> FALSE,    \* paper: the model keeps `history` and `ticks`
     history |-> <<>>,          \* paper: the bars _finalize_bar appended to
                                \* _historical_cache of the first instrument
     ticks |-> <<>>,            \* paper: time and price of the quotes of the
                                \* first instrument that were aggregated
     eod_time |-> <<>>,         \* backtest, paper: eod_square_off_time of the
                                \* parameters as (hour, minute), <<>> for none
     eod_done_today |-> -1,     \* paper _eod_done_today, backtest
                                \* _last_eod_date: date of the last square-off
     eod_runs |-> 0,            \* square-offs begun
     eod_pending |-> {},        \* ids of the orders that were pending when
                                \* the last square-off began
     max_quotes |-> MaxQuotes,  \* paper, live: quotes delivered in the session
     discarded |-> FALSE,       \* paper, live: a quote was dropped by the
                                \* guard of on_market_data
     max_orders |-> MaxOrders,  \* paper, live: buy / sell calls the strategy
                                \* makes in the session
     min_quantity |-> 0,        \* backtest, paper: least quantity the
                                \* strategy orders
     raised |-> {},             \* backtest: strategy callbacks that raised
     last_open |-> [called |-> FALSE],  \* the last get_open_orders call:
                                \* seq of the orders it returned, and of the
                                \* orders that were awaiting a fill
     last_snapshot |-> [taken |-> FALSE],  \* the last get_state_snapshot
                                \* call: what it returned, and how many orders
                                \* of _order_queue were pending at that moment
     env |-> "none",            \* environment the strategy code runs in
     last_lookup |-> [kind |-> "none"],  \* the last builtin name the strategy
                                \* code referred to, or module it asked for,
                                \* and whether the environment supplied it
     db_status |-> EmptyDict,   \* registry: TradingSession.status by session
     registry |-> EmptyDict,    \* trading_service._active_runners: by session
                                \* id, the position in `started` of its runner,
                                \* 0 for no entry
     started |-> <<>>,          \* runners start_session has started: session,
                                \* _running, _paused
     requests |-> <<>>,         \* start_session requests under way
     timestamps |-> <<>>,       \* backtest: data_handler._timestamps
     last_hist |-> [periods |-> -1],  \* the last get_historical_data call:
                                \* its arguments and the timestamps of the
                                \* rows it returned
     on_data_calls |-> 0,       \* calls of strategy.on_data and
     on_tick_calls |-> 0,       \* of strategy.on_tick made for the quote
                                \* (paper, live) or the bar (backtest) that
                                \* is being handled or was handled last
     last_eval |-> [bar_index |-> -1],  \* backtest: the last execute_order
                                \* call: its order, bar, bar index and result
     last_ret |-> <<>>,         \* order id the last buy / sell returned
     last_verdict |-> "none",   \* ... what became of that call
     last_day_pnl |-> 0]        \* live: the day's realized P&L at that call

\* OrderEvent as the contexts build it
OrderEvent(order_id, symbol, side, quantity, timestamp) ==
    [order_id |-> order_id, symbol |-> symbol, side |-> side,
     quantity |-> quantity, order_type |-> "MARKET", price |-> 0,
     product |-> "MIS", status |-> "pending", timestamp |-> timestamp]

\* get_current_prices of the data handler: {symbol: close}
BarPrices(bar) ==
    IF bar.missing THEN EmptyDict ELSE [x \in {RunnerSymbol} |-> bar.close]

----------------------------------------------------------------------------
(* Initial states *)

InitWith(m, t0, emh) ==
    /\ mode = m
    /\ now = t0
    /\ portfolio = Portfolio(InitialCapital)
    /\ hist = HistInit
    /\ risk = RiskManager(emh)
    /\ rlast = [RlastInit EXCEPT !.pre = RiskManager(emh)]
    /\ runner = RunnerInit

LedgerInit == InitWith("ledger", 0, TRUE)

CloseInit == InitWith("close", 0, TRUE)

RiskInit == \E t0 \in StartTimes, emh \in BOOLEAN : InitWith("risk", t0, emh)

----------------------------------------------------------------------------
(* Ledger driver: the Portfolio API called with arbitrary fills.  In mode   *)
(* "ledger" all fills are on one symbol; in mode "close" they are spread   *)
(* over the symbols and close_all_positions ends the run.                  *)

FillInputs(m) ==
    IF m = "ledger"
    THEN [symbol : {"A"}, side : Sides, quantity : 1..MaxQty,
          fill_price : LedgerPrices, commission : Commissions]
    ELSE [symbol : Symbols, side : Sides, quantity : 1..MaxQty,
          fill_price : LedgerPrices, commission : {Cent}]

ApplyFill ==
    /\ mode \in {"ledger", "close"}
    /\ hist.nfills < MaxFills
    /\ hist.op # "close_all" \/ mode = "ledger"
    /\ \E f \in FillInputs(mode) :
          LET fill == [symbol |-> f.symbol, side |-> f.side,
                       quantity |-> f.quantity, fill_price |-> f.fill_price,
                       commission |-> f.commission, timestamp |-> now]
          IN  /\ ~update_on_fill_raises(portfolio, fill)
              /\ portfolio' = update_on_fill(portfolio, fill)
              /\ hist' = [HistFill(hist, portfolio, fill) EXCEPT !.nfills = @ + 1]
    /\ UNCHANGED <<mode, now, risk, rlast, runner>>

CloseAllPositions ==
    /\ mode = "close"
    /\ hist.op # "close_all"
    /\ \E current_prices \in PriceDicts(LedgerPrices) :
          /\ portfolio' = close_all_positions(portfolio, current_prices, now).pf
          /\ hist' = HistClose(hist, portfolio, current_prices, now)
    /\ UNCHANGED <<mode, now, risk, rlast, runner>>

LedgerNext == ApplyFill \/ CloseAllPositions

SpecLedger == LedgerInit /\ [][ApplyFill]_vars

SpecClose == CloseInit /\ [][LedgerNext]_vars

----------------------------------------------------------------------------
(* Risk driver: the RiskManager API called directly *)

RiskValidate ==
    /\ mode = "risk"
    /\ rlast.n < MaxRiskSteps
    /\ \E side \in Sides, qty \in 1..MaxQty, price \in RiskPrices,
          cp \in PositionLists :
          LET o == [symbol |-> "A", side |-> side, quantity |-> qty,
                    price |-> price, current_positions |-> cp]
          IN  /\ risk' = validate_order(risk, now, o).rm
              /\ rlast' = RlastCall(rlast, risk, now, o)
    /\ UNCHANGED <<mode, now, portfolio, hist, runner>>

RiskUpdatePnl ==
    /\ mode = "risk"
    /\ rlast.n < MaxRiskSteps
    /\ \E x \in PnlSteps : risk' = update_pnl(risk, now, x)
    /\ rlast' = [rlast EXCEPT
                   !.n = @ + 1,
                   !.order = NoOrder,
                   !.reset_mark = IF DateOf(now) # risk._daily_date
                                  THEN Len(rlast.accepted) ELSE @]
    /\ UNCHANGED <<mode, now, portfolio, hist, runner>>

RiskUpdatePositionCount ==
    /\ mode = "risk"
    /\ rlast.n < MaxRiskSteps
    /\ \E count \in 0..RiskConfig.max_open_positions :
          /\ count # risk._current_positions_count
          /\ risk' = update_position_count(risk, count)
    /\ rlast' = [rlast EXCEPT !.n = @ + 1, !.order = NoOrder]
    /\ UNCHANGED <<mode, now, portfolio, hist, runner>>

ClockAdvance ==
    /\ mode = "risk"
    /\ rlast.n < MaxRiskSteps
    /\ \E d \in ClockSteps : now' = now + d
    /\ rlast' = [rlast EXCEPT !.n = @ + 1, !.order = NoOrder]
    /\ UNCHANGED <<mode, portfolio, hist, risk, runner>>

RiskNext == RiskValidate \/ RiskUpdatePnl \/ RiskUpdatePositionCount \/ ClockAdvance

SpecRisk == RiskInit /\ [][RiskNext]_vars

----------------------------------------------------------------------------
(* Backtest runner *)

BacktestInit ==
    /\ \E fa \in {"next_open", "current_close"}, locks \in TimeLockConfigs :
          runner = [RunnerInit EXCEPT !.fill_at = fa, !.time_locks = locks]
    /\ mode = "backtest"
    /\ now = 0
    /\ portfolio = Portfolio(InitialCapital)
    /\ hist = HistInit
    /\ risk = RiskManager(TRUE)
    /\ rlast = RlastInit

\* run(): strategy loaded, data handler and context built, on_init called
BtRun ==
    /\ mode = "backtest"
    /\ runner.pc = "created"
    /\ runner' = [runner EXCEPT !.pc = "bar", !.status = "running"]
    /\ UNCHANGED <<mode, now, portfolio, hist, risk, rlast>>

\* the bar loop takes the next bar and enters _process_pending_orders
BtBar ==
    /\ mode = "backtest"
    /\ runner.pc = "bar"
    /\ runner.bar_index + 1 < MaxBars
    /\ \E bar \in IF runner.gaps THEN BacktestBars ELSE BarSet :
          runner' = [runner EXCEPT !.bar_index = @ + 1, !.bar = bar,
                                   !.pc = "pending", !.idx = 1,
                                   !.still_pending = <<>>,
                                   !.on_data_calls = 0]
    /\ UNCHANGED <<mode, now, portfolio, hist, risk, rlast>>

\* _process_pending_orders: one iteration of the loop over _pending_orders
BtProcessOrder ==
    /\ mode = "backtest"
    /\ runner.pc = "pending"
    /\ runner.cb = "none"
    /\ runner.idx <= Len(runner.pending_orders)
    /\ LET order == runner.pending_orders[runner.idx]
           fill == execute_order(order, runner.fill_at, runner.bar, runner.bar_index)
           next == [runner EXCEPT !.idx = @ + 1,
                                  !.last_eval = [order |-> order,
                                                 bar_index |-> runner.bar_index,
                                                 bar |-> runner.bar,
                                                 fill |-> fill]]
       IN  IF order.status # "pending"
           THEN runner' = [runner EXCEPT !.idx = @ + 1] /\ UNCHANGED <<portfolio, hist>>
           ELSE IF fill = KeyError
           THEN \* the KeyError leaves the loop and _run_internal: run()
                \* returns status failed
                /\ runner' = [next EXCEPT !.pc = "done", !.status = "failed"]
                /\ UNCHANGED <<portfolio, hist>>
           ELSE IF fill = NoFill
           THEN /\ runner' = IF order.order_type \in {"LIMIT", "SL", "SL-M"}
                             THEN [next EXCEPT !.still_pending = Append(@, order)]
                             ELSE [next EXCEPT !.pending_orders[runner.idx].status = "rejected"]
                /\ UNCHANGED <<portfolio, hist>>
           ELSE IF update_on_fill_raises(portfolio, fill)
           THEN \* ZeroDivisionError leaves the loop and _run_internal: run()
                \* returns status failed
                /\ portfolio' = [portfolio EXCEPT !.total_charges = @ + fill.commission]
                /\ runner' = [next EXCEPT !.pending_orders[runner.idx].status = "completed",
                                          !.pc = "done", !.status = "failed"]
                /\ UNCHANGED hist
           ELSE /\ portfolio' = update_on_fill(portfolio, fill)
                /\ hist' = HistFill(hist, portfolio, fill)
                /\ runner' = [next EXCEPT
                                !.pending_orders[runner.idx].status = "completed",
                                !.cb = IF update_on_fill_ret(portfolio, fill) # NoTrade
                                       THEN "on_order_fill" ELSE "none",
                                !.ncalls = 0]
    /\ UNCHANGED <<mode, now, risk, rlast>>

\* _process_pending_orders returns; the end-of-day square-off if it is due:
\* close_all_positions at the bar's prices, _pending_orders cleared; then
\* strategy.on_data is called
BtPendingDone ==
    /\ mode = "backtest"
    /\ runner.pc = "pending"
    /\ runner.cb = "none"
    /\ runner.idx > Len(runner.pending_orders)
    /\ LET timestamp == BarTimestamp(runner.bar_index)
           rn == [runner EXCEPT !.pending_orders = runner.still_pending,
                                !.still_pending = <<>>,
                                !.pc = "on_data", !.cb = "on_data", !.ncalls = 0,
                                !.on_data_calls = @ + 1]
       IN  IF eod_due(runner.eod_time, timestamp, runner.eod_done_today)
           THEN /\ runner' = [rn EXCEPT !.eod_done_today = DateOf(timestamp),
                                        !.eod_runs = @ + 1,
                                        !.eod_pending = PendingSeqs(rn.pending_orders),
                                        !.pending_orders = <<>>]
                /\ portfolio' = close_all_positions(portfolio, BarPrices(runner.bar),
                                                    timestamp).pf
                /\ hist' = HistClose(hist, portfolio, BarPrices(runner.bar), timestamp)
           ELSE /\ runner' = rn
                /\ UNCHANGED <<portfolio, hist>>
    /\ UNCHANGED <<mode, now, risk, rlast>>

\* BacktestContext.buy / sell -> _place_order, called by the strategy
BtPlaceOrder ==
    /\ mode = "backtest"
    /\ runner.cb # "none"
    /\ runner.ncalls < MaxCalls
    /\ runner.norders < MaxOrders
    /\ \E side \in Sides,
          quantity \in {q \in OrderQuantities : q >= runner.min_quantity},
          req \in OrderRequests(runner.order_types) :
          LET called == [runner EXCEPT !.ncalls = @ + 1, !.norders = @ + 1]
              order_id == <<"BT", Len(runner.order_queue)>>
          IN  runner' =
                IF _is_time_locked(runner.time_locks, BarTimestamp(runner.bar_index))
                THEN [called EXCEPT !.last_ret = <<>>, !.last_verdict = "time_locked"]
                ELSE [called EXCEPT
                        !.last_ret = order_id, !.last_verdict = "queued",
                        !.order_queue = Append(@,
                            [seq |-> runner.norders] @@
                            [OrderEvent(Len(runner.order_queue), RunnerSymbol, side,
                                        quantity, runner.bar_index)
                                EXCEPT !.order_type = req.order_type,
                                       !.price = req.price])]
    /\ UNCHANGED <<mode, now, portfolio, hist, risk, rlast>>

\* on_order_fill returns into the loop of _process_pending_orders
BtFillCallbackReturn ==
    /\ mode = "backtest"
    /\ runner.cb = "on_order_fill"
    /\ runner' = [runner EXCEPT !.cb = "none"]
    /\ UNCHANGED <<mode, now, portfolio, hist, risk, rlast>>

\* on_data returns: _stage_new_orders, then record_equity at the bar's prices
BtOnDataReturn ==
    /\ mode = "backtest"
    /\ runner.cb = "on_data"
    /\ runner' = [runner EXCEPT !.cb = "none", !.pc = "bar",
                                !.pending_orders = @ \o runner.order_queue,
                                !.order_queue = <<>>]
    /\ portfolio' = record_equity(portfolio, runner.bar_index, BarPrices(runner.bar))
    /\ UNCHANGED <<mode, now, hist, risk, rlast>>

\* after the last bar: close_all_positions, the final equity point, on_stop,
\* metrics
BtFinish ==
    /\ mode = "backtest"
    /\ runner.pc = "bar"
    /\ runner.bar_index >= 0
    /\ LET res == close_all_positions(portfolio, BarPrices(runner.bar), runner.bar_index)
       IN  /\ portfolio' = record_equity(res.pf, runner.bar_index, BarPrices(runner.bar))
           /\ hist' = HistClose(hist, portfolio, BarPrices(runner.bar), runner.bar_index)
           /\ runner' = [runner EXCEPT !.pc = "done", !.status = "completed",
                                       !.nstop = @ + 1, !.stopped = TRUE,
                                       !.open_at_stop = Len(res.pf.positions)]
    /\ UNCHANGED <<mode, now, risk, rlast>>

BacktestNext ==
    \/ BtRun \/ BtBar \/ BtProcessOrder \/ BtPendingDone \/ BtPlaceOrder
    \/ BtFillCallbackReturn \/ BtOnDataReturn \/ BtFinish

SpecBacktest == BacktestInit /\ [][BacktestNext]_vars

\* on_init raises: the except clause logs and re-raises, and run() turns the
\* exception into a result with status failed
BtOnInitRaise ==
    /\ mode = "backtest"
    /\ runner.pc = "created"
    /\ runner' = [runner EXCEPT !.pc = "done", !.status = "failed",
                                !.raised = @ \cup {"on_init"}]
    /\ UNCHANGED <<mode, now, portfolio, hist, risk, rlast>>

\* the bar loop after an on_data that raised and was aborted
on_data_raised_abort(rn) ==
    [rn EXCEPT !.cb = "none", !.pc = "done", !.status = "failed",
               !.raised = @ \cup {"on_data"}]

\* the bar loop after an on_data that raised: the except clause logs, and the
\* loop goes on to _stage_new_orders
on_data_raised(rn) ==
    [rn EXCEPT !.cb = "none", !.pc = "bar",
               !.pending_orders = @ \o rn.order_queue,
               !.order_queue = <<>>,
               !.raised = @ \cup {"on_data"}]

\* on_data raises, at its start or after some of its calls: _stage_new_orders,
\* then record_equity at the bar's prices
BtOnDataRaise ==
    /\ mode = "backtest"
    /\ runner.cb = "on_data"
    /\ runner' = on_data_raised(runner)
    /\ portfolio' = IF runner'.pc = "bar"
                    THEN record_equity(portfolio, runner.bar_index, BarPrices(runner.bar))
                    ELSE portfolio
    /\ UNCHANGED <<mode, now, hist, risk, rlast>>

\* after the last bar, with an on_stop that raises: the except clause logs,
\* and the metrics and the result follow
BtOnStopRaise ==
    /\ mode = "backtest"
    /\ runner.pc = "bar"
    /\ runner.bar_index >= 0
    /\ LET res == close_all_positions(portfolio, BarPrices(runner.bar), runner.bar_index)
       IN  /\ portfolio' = record_equity(res.pf, runner.bar_index, BarPrices(runner.bar))
           /\ hist' = HistClose(hist, portfolio, BarPrices(runner.bar), runner.bar_index)
           /\ runner' = [runner EXCEPT !.pc = "done", !.status = "completed",
                                       !.nstop = @ + 1, !.stopped = TRUE,
                                       !.open_at_stop = Len(res.pf.positions),
                                       !.raised = @ \cup {"on_stop"}]
    /\ UNCHANGED <<mode, now, risk, rlast>>

\* a backtest over well-formed bars, fills at the next open, whose strategy
\* orders positive quantities and whose callbacks may raise
StrategyErrorsInit ==
    /\ runner = [RunnerInit EXCEPT !.fill_at = "next_open", !.gaps = FALSE,
                                   !.min_quantity = 1]
    /\ mode = "backtest"
    /\ now = 0
    /\ portfolio = Portfolio(InitialCapital)
    /\ hist = HistInit
    /\ risk = RiskManager(TRUE)
    /\ rlast = RlastInit

StrategyErrorsNext ==
    \/ BacktestNext \/ BtOnInitRaise \/ BtOnDataRaise \/ BtOnStopRaise

SpecStrategyErrors == StrategyErrorsInit /\ [][StrategyErrorsNext]_vars

\* positions in a list of the pending orders that carry an id
PendingWithId(list, order_id) ==
    {i \in 1..Len(list) : list[i].order_id = order_id /\ list[i].status = "pending"}

\* cancel_order: position in _order_queue of the first pending order with the
\* id, 0 when the loop finds none
cancel_index(queue, order_id) ==
    IF PendingWithId(queue, order_id) = {} THEN 0
    ELSE CHOOSE i \in PendingWithId(queue, order_id) :
            \A j \in PendingWithId(queue, order_id) : i <= j

\* list.pop(i)
RemoveAt(list, i) == SubSeq(list, 1, i - 1) \o SubSeq(list, i + 1, Len(list))

\* the orders of a backtest that are still waiting for a fill: queued in this
\* callback, staged on an earlier bar, or carried over by the loop under way
AwaitingFill(rn) ==
    {o \in {rn.order_queue[i] : i \in 1..Len(rn.order_queue)}
           \cup {rn.pending_orders[i] : i \in 1..Len(rn.pending_orders)}
           \cup {rn.still_pending[i] : i \in 1..Len(rn.still_pending)} :
        o.status = "pending"}

\* ids a strategy passes to cancel_order: ids it was given, and one it was not
CancelIds == 0..(MaxCalls + 1)

\* BacktestContext.cancel_order, called by the strategy
BtCancelOrder ==
    /\ mode = "backtest"
    /\ runner.cb # "none"
    /\ runner.ncancels < MaxCancels
    /\ \E order_id \in CancelIds :
          LET i == cancel_index(runner.order_queue, order_id)
          IN  runner' = [runner EXCEPT
                !.ncancels = @ + 1,
                !.order_queue = IF i = 0 THEN @ ELSE RemoveAt(@, i),
                !.cancelled = IF i = 0 THEN @ ELSE @ \cup {runner.order_queue[i].seq},
                !.last_cancel =
                    [order_id |-> order_id,
                     ret |-> i # 0,
                     was_pending |-> \E o \in AwaitingFill(runner) : o.order_id = order_id,
                     changed |-> i # 0]]
    /\ UNCHANGED <<mode, now, portfolio, hist, risk, rlast>>

\* a backtest of a strategy that places MARKET and LIMIT orders and cancels
BacktestContextInit ==
    /\ \E fa \in {"next_open", "current_close"} :
          runner = [RunnerInit EXCEPT !.fill_at = fa,
                                      !.order_types = {"MARKET", "LIMIT"}]
    /\ mode = "backtest"
    /\ now = 0
    /\ portfolio = Portfolio(InitialCapital)
    /\ hist = HistInit
    /\ risk = RiskManager(TRUE)
    /\ rlast = RlastInit

BacktestContextNext == BacktestNext \/ BtCancelOrder

SpecBacktestContext == BacktestContextInit /\ [][BacktestContextNext]_vars

\* BacktestContext.get_open_orders, called by the strategy: the pending
\* orders of _order_queue
BtGetOpenOrders ==
    /\ mode = "backtest"
    /\ runner.cb # "none"
    /\ runner' = [runner EXCEPT
                    !.last_open =
                        [called |-> TRUE,
                         ret |-> {runner.order_queue[k].seq :
                                     k \in {i \in 1..Len(runner.order_queue) :
                                               runner.order_queue[i].status = "pending"}},
                         open |-> {o.seq : o \in AwaitingFill(runner)}]]
    /\ UNCHANGED <<mode, now, portfolio, hist, risk, rlast>>

\* a backtest over well-formed bars, fills at the next open, of a strategy
\* that places MARKET and LIMIT orders of positive quantity and asks for its
\* open orders
OpenOrdersInit ==
    /\ runner = [RunnerInit EXCEPT !.fill_at = "next_open", !.gaps = FALSE,
                                   !.min_quantity = 1,
                                   !.order_types = {"MARKET", "LIMIT"}]
    /\ mode = "backtest"
    /\ now = 0
    /\ portfolio = Portfolio(InitialCapital)
    /\ hist = HistInit
    /\ risk = RiskManager(TRUE)
    /\ rlast = RlastInit

OpenOrdersNext == BacktestNext \/ BtGetOpenOrders

SpecOpenOrders == OpenOrdersInit /\ [][OpenOrdersNext]_vars

\* a backtest configured with fill_at = next_open and no time locks
NextOpenInit ==
    /\ runner = [RunnerInit EXCEPT !.fill_at = "next_open"]
    /\ mode = "backtest"
    /\ now = 0
    /\ portfolio = Portfolio(InitialCapital)
    /\ hist = HistInit
    /\ risk = RiskManager(TRUE)
    /\ rlast = RlastInit

SpecNextOpen == NextOpenInit /\ [][BacktestNext]_vars

\* a backtest of a strategy that places LIMIT, SL and SL-M orders as well
BacktestOrdersInit ==
    /\ \E fa \in {"next_open", "current_close"} :
          runner = [RunnerInit EXCEPT !.fill_at = fa, !.order_types = OrderTypes]
    /\ mode = "backtest"
    /\ now = 0
    /\ portfolio = Portfolio(InitialCapital)
    /\ hist = HistInit
    /\ risk = RiskManager(TRUE)
    /\ rlast = RlastInit

SpecBacktestOrders == BacktestOrdersInit /\ [][BacktestNext]_vars

\* keyword parameters of SimulatedExecutionHandler.__init__
ExecutionHandlerParams == {"slippage_percent", "fill_at"}

\* keyword arguments BacktestRunner.__init__ passes to it, each from the
\* config or from its default
ExecutionHandlerArgs ==
    {"slippage_percent", "fill_at", "commission_type", "flat_commission"}

\* a backtest about to be created: its config dict
BacktestNewInit ==
    /\ \E fa \in {"next_open", "current_close"}, locks \in TimeLockConfigs,
          config \in SUBSET (ExecutionHandlerArgs \cup {"initial_capital"}) :
          runner = [RunnerInit EXCEPT !.pc = "new", !.fill_at = fa,
                                      !.time_locks = locks, !.config = config]
    /\ mode = "backtest"
    /\ now = 0
    /\ portfolio = Portfolio(InitialCapital)
    /\ hist = HistInit
    /\ risk = RiskManager(TRUE)
    /\ rlast = RlastInit

\* BacktestRunner(backtest_id, strategy_code, config): the call of
\* SimulatedExecutionHandler(...) raises TypeError for a keyword the callee
\* does not take, and then no runner exists for run() to be called on
BacktestRunner ==
    /\ mode = "backtest"
    /\ runner.pc = "new"
    /\ runner' = [runner EXCEPT
                    !.pc = IF ExecutionHandlerArgs \subseteq ExecutionHandlerParams
                           THEN "created" ELSE "raised"]
    /\ UNCHANGED <<mode, now, portfolio, hist, risk, rlast>>

SpecBacktestNew == BacktestNewInit /\ [][BacktestRunner]_vars

\* rows.iloc[-n:] of pandas: the last n rows, and every row when n is 0,
\* where the slice -0: is the slice 0:
iloc_last(rows, n) ==
    IF n = 0 \/ n >= Len(rows) THEN rows
    ELSE SubSeq(rows, Len(rows) - n + 1, Len(rows))

\* HistoricalDataHandler.get_historical: the index of the rows returned for
\* a symbol whose frame has a row at every timestamp
get_historical(timestamps, current_index, symbol, periods) ==
    IF symbol # RunnerSymbol \/ current_index < 0 THEN <<>>
    ELSE LET current_ts == timestamps[current_index + 1]
             historical == SelectSeq(timestamps, LAMBDA ts : ts <= current_ts)
         IN  IF Len(historical) > periods THEN iloc_last(historical, periods)
             ELSE historical

\* values of the periods argument
HistoricalPeriods == 0..(MaxBars + 2)

\* a backtest of 1..MaxBars bars stopped at one of its bars, or before the
\* first
HistoricalInit ==
    /\ \E n \in 1..MaxBars, current_index \in -1..(MaxBars - 1) :
          /\ current_index < n
          /\ runner = [RunnerInit EXCEPT
                         !.pc = "on_data", !.cb = "on_data",
                         !.bar_index = current_index,
                         !.timestamps = [i \in 1..n |-> BarTimestamp(i - 1)]]
    /\ mode = "historical"
    /\ now = 0
    /\ portfolio = Portfolio(InitialCapital)
    /\ hist = HistInit
    /\ risk = RiskManager(TRUE)
    /\ rlast = RlastInit

\* BacktestContext.get_historical_data, called by the strategy
BtGetHistoricalData ==
    /\ mode = "historical"
    /\ \E symbol \in Symbols, periods \in HistoricalPeriods :
          runner' = [runner EXCEPT
                       !.last_hist =
                           [symbol |-> symbol, periods |-> periods,
                            rows |-> get_historical(runner.timestamps,
                                                    runner.bar_index, symbol,
                                                    periods)]]
    /\ UNCHANGED <<mode, now, portfolio, hist, risk, rlast>>

SpecHistorical == HistoricalInit /\ [][BtGetHistoricalData]_vars

----------------------------------------------------------------------------
(* The LIMIT fill rule on its own *)

\* limit prices a strategy computes: below, inside and above the bars'
\* ranges, on and off the paise grid
LimitPrices == {5850, 5900, 6004, 6106, 6300, 6350}

\* one pending LIMIT order, one execution bar, either fill mode
FillLimitInit ==
    /\ \E fa \in {"next_open", "current_close"}, bar \in BarSet, side \in Sides,
          quantity \in 1..MaxQty, price \in LimitPrices :
          runner = [RunnerInit EXCEPT
                      !.fill_at = fa, !.bar = bar, !.bar_index = 0,
                      !.order_types = {"LIMIT"},
                      !.pending_orders =
                          <<[OrderEvent(0, RunnerSymbol, side, quantity, 0)
                                EXCEPT !.order_type = "LIMIT", !.price = price]>>]
    /\ mode = "fill"
    /\ now = 0
    /\ portfolio = Portfolio(InitialCapital)
    /\ hist = HistInit
    /\ risk = RiskManager(TRUE)
    /\ rlast = RlastInit

\* execute_order on that order and bar
FillLimitExecute ==
    /\ mode = "fill"
    /\ runner.pc = "created"
    /\ LET order == runner.pending_orders[1]
       IN  runner' = [runner EXCEPT
                        !.pc = "done",
                        !.last_eval =
                            [order |-> order, bar_index |-> runner.bar_index,
                             bar |-> runner.bar,
                             fill |-> execute_order(order, runner.fill_at, runner.bar,
                                                    runner.bar_index)]]
    /\ UNCHANGED <<mode, now, portfolio, hist, risk, rlast>>

SpecFillLimit == FillLimitInit /\ [][FillLimitExecute]_vars

----------------------------------------------------------------------------
(* Paper runner *)

\* SimulatedBroker.try_fill_order; a price or trigger of 0 stands for None
\* (and is falsy like it).  The fee rates of constants.py are held in units
\* of 1e-8.
try_fill_order(order, prices, timestamp) ==
    IF order.symbol \notin DOMAIN prices THEN NoFill
    ELSE IF /\ order.order_type = "LIMIT" /\ order.price # 0
            /\ \/ order.side = "BUY" /\ prices[order.symbol] > order.price
               \/ order.side = "SELL" /\ prices[order.symbol] < order.price
    THEN NoFill
    ELSE IF /\ order.order_type \in {"SL", "SL-M"}
            /\ \/ order.price = 0
               \/ order.side = "BUY" /\ prices[order.symbol] < order.price
               \/ order.side = "SELL" /\ prices[order.symbol] > order.price
    THEN NoFill
    ELSE LET fill_price == IF order.order_type = "LIMIT" /\ order.price # 0
                           THEN order.price ELSE prices[order.symbol]
             turnover == fill_price * order.quantity
             capped == turnover * 3 > 20000 * 10000
             brokerage_rate == IF capped THEN 0 ELSE 30000
             stt_rate == IF order.side = "SELL" THEN 25000 ELSE 0
             gst_rate == (18 * (brokerage_rate + 3450)) \div 100
             stamp_rate == IF order.side = "BUY" THEN 15000 ELSE 0
             rate == brokerage_rate + stt_rate + 3450 + gst_rate + 100 + stamp_rate
             fixed == IF capped THEN 20000 + (18 * 20000) \div 100 ELSE 0
         IN  [symbol |-> order.symbol,
              side |-> order.side,
              quantity |-> order.quantity,
              fill_price |-> Round2(fill_price),
              commission |-> fixed + RoundDivTo(turnover * rate, 100000000, Cent),
              timestamp |-> timestamp]

\* the mutant: the bar starts at the quote
_bar_start_time_unaligned(t, tf_seconds) == t

\* _bar_start_time for a timeframe shorter than a day
_bar_start_time(t, tf_seconds) ==
    DateOf(t) * DaySeconds + (TimeOfDay(t) \div tf_seconds) * tf_seconds

\* quotes, and the limit / trigger prices of orders compared on them
QuotePoints == {5900, 6000, 6100}

\* a LIMIT or SL order built by the Context API, a quote p, and the bar
\* open = high = low = close = p
QuoteFillInit ==
    /\ \E fa \in {"next_open", "current_close"}, p \in QuotePoints, side \in Sides,
          quantity \in 1..MaxQty, price \in QuotePoints, order_type \in {"LIMIT", "SL"} :
          runner = [RunnerInit EXCEPT
                      !.fill_at = fa, !.bar_index = 0,
                      !.bar = [open |-> p, high |-> p, low |-> p, close |-> p,
                               missing |-> FALSE],
                      !.prices = [x \in {RunnerSymbol} |-> p],
                      !.order_types = {order_type},
                      !.pending_orders =
                          <<[OrderEvent(0, RunnerSymbol, side, quantity, 0)
                                EXCEPT !.order_type = order_type, !.price = price]>>]
    /\ mode = "quote"
    /\ now = 0
    /\ portfolio = Portfolio(InitialCapital)
    /\ hist = HistInit
    /\ risk = RiskManager(TRUE)
    /\ rlast = RlastInit

\* execute_order on the bar and try_fill_order on the quote
QuoteFillExecute ==
    /\ mode = "quote"
    /\ runner.pc = "created"
    /\ LET order == runner.pending_orders[1]
       IN  runner' = [runner EXCEPT
                        !.pc = "done",
                        !.quote_fill = try_fill_order(order, runner.prices, 0),
                        !.last_eval =
                            [order |-> order, bar_index |-> runner.bar_index,
                             bar |-> runner.bar,
                             fill |-> execute_order(order, runner.fill_at, runner.bar,
                                                    runner.bar_index)]]
    /\ UNCHANGED <<mode, now, portfolio, hist, risk, rlast>>

SpecQuoteFill == QuoteFillInit /\ [][QuoteFillExecute]_vars

SessionInit(m) ==
    /\ mode = m
    /\ now = SessionStart
    /\ portfolio = Portfolio(InitialCapital)
    /\ hist = HistInit
    /\ risk = RiskManager(TRUE)
    /\ rlast = RlastInit
    /\ runner = RunnerInit

PaperInit ==
    /\ mode = "paper"
    /\ now = SessionStart
    /\ portfolio = Portfolio(InitialCapital)
    /\ hist = HistInit
    /\ risk = RiskManager(TRUE)
    /\ rlast = RlastInit
    /\ \E locks \in TimeLockConfigs : runner = [RunnerInit EXCEPT !.time_locks = locks]

\* status of get_state_snapshot
SnapshotStatus(rn) ==
    IF rn.running /\ ~rn.paused THEN "running"
    ELSE IF rn.paused THEN "paused" ELSE "stopped"

\* the runner has been stopped and not started again
Halted(rn) == rn.stopped /\ ~rn.running

\* rn after an event (a strategy callback, a fill) took place
Noting(rn, event) ==
    IF Halted(rn) THEN [rn EXCEPT !.after_stop = @ \cup {event}] ELSE rn

\* the list object the order loop of _process_orders iterates
IterList(rn) == IF rn.detached THEN rn.iter_list ELSE rn.order_queue

\* order.status = "completed" on the order object, seen through every list
\* that holds it
MarkIn(list, order_id) ==
    [i \in 1..Len(list) |->
        IF list[i].order_id = order_id
        THEN [list[i] EXCEPT !.status = "completed"] ELSE list[i]]

MarkCompleted(rn, order_id) ==
    [rn EXCEPT
        !.order_queue = MarkIn(@, order_id),
        !.iter_list = MarkIn(@, order_id),
        !.still_pending = MarkIn(@, order_id),
        !.suspended = [k \in 1..Len(@) |->
                          [@[k] EXCEPT !.iter_list = MarkIn(@, order_id),
                                       !.still_pending = MarkIn(@, order_id)]]]

\* self._order_queue = still_pending: the attribute now refers to a new list;
\* a suspended coroutine that was iterating the old one keeps iterating it
RebindQueue(rn) ==
    [rn EXCEPT
        !.order_queue = rn.still_pending,
        !.still_pending = <<>>,
        !.detached = FALSE,
        !.iter_list = <<>>,
        !.suspended = [k \in 1..Len(@) |->
                          IF @[k].detached THEN @[k]
                          ELSE [@[k] EXCEPT !.detached = TRUE,
                                            !.iter_list = IterList(rn)]]]

\* the ticks of one callback of the ticker: {symbol: price}; the session's
\* first instrument is in every batch
TickBatches(symbols) == {data \in SUBSET symbols : RunnerSymbol \in data}

\* start(): strategy loaded, on_init called, _running set
PaperStart ==
    /\ mode = "paper"
    /\ runner.pc = "created"
    /\ runner' = [runner EXCEPT !.pc = "idle", !.running = TRUE]
    /\ UNCHANGED <<mode, now, portfolio, hist, risk, rlast>>

\* _finalize_bar: the completed bar is appended with its start as timestamp
_finalize_bar(history, bar_start, bar) ==
    Append(history, [timestamp |-> bar_start, open |-> bar.open, high |-> bar.high,
                     low |-> bar.low, close |-> bar.close])

\* the mutant: only a stopped runner drops the quote
QuoteDiscarded_StoppedOnly(rn) == ~rn.running

\* the guard of on_market_data, paper and live: the quote is dropped
QuoteDiscarded(rn) == ~rn.running \/ rn.paused

\* on_market_data up to its first _process_orders call: broker prices, bar
\* aggregation.  A stopped or paused runner returns at once.
PaperQuote ==
    /\ mode = "paper"
    /\ runner.pc = "idle"
    /\ runner.nquotes < runner.max_quotes
    /\ IF QuoteDiscarded(runner)
       THEN /\ runner' = [runner EXCEPT !.nquotes = @ + 1, !.discarded = TRUE]
            /\ UNCHANGED <<now, portfolio, hist>>
       ELSE \E price \in PaperPrices, gap \in QuoteGaps, data \in TickBatches(runner.symbols) :
          LET bar_start == _bar_start_time(now + gap, _tf_seconds)
              cur == runner.current_bar
              fresh == [open |-> price, high |-> price, low |-> price,
                        close |-> price, missing |-> FALSE]
              first == cur.missing
              second == data # {RunnerSymbol}
              rolled == \/ ~first /\ bar_start > runner.bar_start
                        \/ second /\ runner.bar_start_2nd >= 0
                                  /\ bar_start > runner.bar_start_2nd
              timestamp == now + gap
              rn == [runner EXCEPT
                  !.prices = [x \in DOMAIN @ \cup data |->
                                 IF x \in data THEN price ELSE @[x]],
                  !.bar_start_2nd = IF second /\ (@ < 0 \/ bar_start > @)
                                    THEN bar_start ELSE @,
                  !.current_bar = IF first \/ bar_start > runner.bar_start THEN fresh
                                  ELSE [cur EXCEPT !.high = Max(@, price),
                                                   !.low = Min(@, price),
                                                   !.close = price],
                  !.bar_start = IF first \/ bar_start > runner.bar_start
                                THEN bar_start ELSE @,
                  !.history = IF runner.keep_history /\ ~first
                                 /\ bar_start > runner.bar_start
                              THEN _finalize_bar(@, runner.bar_start, cur) ELSE @,
                  !.ticks = IF runner.keep_history
                            THEN Append(@, [t |-> timestamp, price |-> price])
                            ELSE @,
                  !.bar_completed = rolled,
                  !.nquotes = @ + 1,
                  !.handled = FALSE,
                  !.on_data_calls = 0, !.on_tick_calls = 0,
                  !.pc = "orders", !.idx = 1, !.still_pending = <<>>,
                  !.detached = FALSE, !.iter_list = <<>>]
              began == [rn EXCEPT !.eod_done_today = DateOf(timestamp),
                                  !.eod_runs = @ + 1,
                                  !.eod_pending = PendingIds(runner.order_queue)]
          IN  /\ now' = timestamp
              /\ IF ~eod_due(runner.eod_time, timestamp, runner.eod_done_today)
                 THEN runner' = rn /\ UNCHANGED <<portfolio, hist>>
                 ELSE IF portfolio.positions = <<>>
                 THEN /\ runner' = [began EXCEPT !.order_queue = <<>>]
                      /\ UNCHANGED <<portfolio, hist>>
                 ELSE \* close_all_positions, then the await of
                      \* _persist_eod_trades
                      /\ runner' = [began EXCEPT !.pc = "eod_persist"]
                      /\ portfolio' = close_all_positions(portfolio, rn.prices,
                                                          timestamp).pf
                      /\ hist' = HistClose(hist, portfolio, rn.prices, timestamp)
    /\ UNCHANGED <<mode, risk, rlast>>

\* _persist_eod_trades returns without another coroutine having run:
\* _order_queue.clear(), then _process_orders
PaperEodPersisted ==
    /\ mode = "paper"
    /\ runner.pc = "eod_persist"
    /\ runner' = [runner EXCEPT !.order_queue = <<>>, !.pc = "orders"]
    /\ UNCHANGED <<mode, now, portfolio, hist, risk, rlast>>

\* await db.commit() in _persist_trade: the coroutine of the square-off is
\* suspended
PaperEodSuspend ==
    /\ mode = "paper"
    /\ runner.pc = "eod_persist"
    /\ Len(runner.suspended) < MaxSuspended
    /\ runner' = [runner EXCEPT
                    !.suspended = Append(@, [pc |-> runner.pc, idx |-> runner.idx,
                                             still_pending |-> runner.still_pending,
                                             bar_completed |-> runner.bar_completed,
                                             detached |-> runner.detached,
                                             iter_list |-> runner.iter_list]),
                    !.pc = "idle"]
    /\ UNCHANGED <<mode, now, portfolio, hist, risk, rlast>>

\* ... and resumed: _order_queue.clear() empties the list the attribute
\* refers to by now, then _process_orders
PaperEodResume ==
    /\ mode = "paper"
    /\ runner.pc = "idle"
    /\ \E k \in 1..Len(runner.suspended) :
          /\ runner.suspended[k].pc = "eod_persist"
          /\ runner' = [runner EXCEPT
                  !.suspended = SubSeq(@, 1, k - 1) \o SubSeq(@, k + 1, Len(@)),
                  !.order_queue = <<>>,
                  !.pc = "orders", !.idx = 1, !.still_pending = <<>>,
                  !.bar_completed = runner.suspended[k].bar_completed,
                  !.detached = FALSE, !.iter_list = <<>>]
    /\ UNCHANGED <<mode, now, portfolio, hist, risk, rlast>>

\* _process_orders: one iteration of the loop over _order_queue, up to the
\* await of _persist_fill
PaperProcessOrder ==
    /\ mode = "paper"
    /\ runner.pc \in {"orders", "orders_again"}
    /\ runner.cb = "none"
    /\ runner.idx <= Len(IterList(runner))
    /\ LET order == IterList(runner)[runner.idx]
           fill == try_fill_order(order, runner.prices, now)
           next == [runner EXCEPT !.idx = @ + 1,
                                  !.last_eval = [order |-> order,
                                                 bar_index |-> runner.nquotes,
                                                 bar |-> runner.current_bar,
                                                 fill |-> fill]]
       IN  IF order.status # "pending"
           THEN runner' = [runner EXCEPT !.idx = @ + 1] /\ UNCHANGED <<portfolio, hist>>
           ELSE IF fill = NoFill
           THEN /\ runner' = [next EXCEPT !.still_pending = Append(@, order)]
                /\ UNCHANGED <<portfolio, hist>>
           ELSE IF update_on_fill_raises(portfolio, fill)
           THEN \* ZeroDivisionError leaves _process_orders and on_market_data
                /\ portfolio' = [portfolio EXCEPT !.total_charges = @ + fill.commission]
                /\ runner' = [Noting(MarkCompleted(next, order.order_id), "fill")
                                 EXCEPT !.pc = "idle"]
                /\ UNCHANGED hist
           ELSE /\ portfolio' = update_on_fill(portfolio, fill)
                /\ hist' = HistFill(hist, portfolio, fill)
                /\ runner' = [Noting(MarkCompleted(next, order.order_id), "fill")
                                 EXCEPT !.cb = "persist",
                                        !.filled_ids = Append(@, order.order_id)]
    /\ UNCHANGED <<mode, now, risk, rlast>>

\* _persist_fill and _persist_trade return without another coroutine having
\* run: on_order_fill is called
PaperPersistDone ==
    /\ mode = "paper"
    /\ runner.cb = "persist"
    /\ runner' = [Noting(runner, "callback") EXCEPT !.cb = "on_order_fill", !.ncalls = 0]
    /\ UNCHANGED <<mode, now, portfolio, hist, risk, rlast>>

\* await db.commit() in _persist_fill: the coroutine is suspended and the
\* event loop is free to run something else
PaperSuspend ==
    /\ mode = "paper"
    /\ runner.cb = "persist"
    /\ Len(runner.suspended) < MaxSuspended
    /\ runner' = [runner EXCEPT
                    !.suspended = Append(@, [pc |-> runner.pc, idx |-> runner.idx,
                                             still_pending |-> runner.still_pending,
                                             bar_completed |-> runner.bar_completed,
                                             detached |-> runner.detached,
                                             iter_list |-> runner.iter_list]),
                    !.pc = "idle", !.cb = "none", !.still_pending = <<>>,
                    !.detached = FALSE, !.iter_list = <<>>]
    /\ UNCHANGED <<mode, now, portfolio, hist, risk, rlast>>

\* the event loop resumes a suspended coroutine: on_order_fill is called
PaperResumeCoroutine ==
    /\ mode = "paper"
    /\ runner.pc = "idle"
    /\ \E k \in 1..Len(runner.suspended) :
          LET co == runner.suspended[k]
              rn == [runner EXCEPT
                       !.suspended = SubSeq(@, 1, k - 1) \o SubSeq(@, k + 1, Len(@)),
                       !.pc = co.pc, !.idx = co.idx,
                       !.still_pending = co.still_pending,
                       !.bar_completed = co.bar_completed,
                       !.detached = co.detached,
                       !.iter_list = co.iter_list,
                       !.cb = "on_order_fill", !.ncalls = 0]
          IN  co.pc # "eod_persist" /\ runner' = Noting(rn, "callback")
    /\ UNCHANGED <<mode, now, portfolio, hist, risk, rlast>>

\* _process_orders returns: on_data if a bar completed, else the handler ends
\* (the tick callback that follows only emits the snapshot)
PaperOrdersDone ==
    /\ mode = "paper"
    /\ runner.pc \in {"orders", "orders_again"}
    /\ runner.cb = "none"
    /\ runner.idx > Len(IterList(runner))
    /\ runner' = IF runner.pc = "orders" /\ runner.bar_completed
                 THEN [Noting(RebindQueue(runner), "callback") EXCEPT
                          !.pc = "on_data", !.cb = "on_data", !.ncalls = 0,
                          !.on_data_calls = @ + 1]
                 ELSE [RebindQueue(runner) EXCEPT !.pc = "idle", !.handled = TRUE]
    /\ UNCHANGED <<mode, now, portfolio, hist, risk, rlast>>

\* PaperTradingContext.buy / sell, called by the strategy
PaperPlaceOrder ==
    /\ mode = "paper"
    /\ runner.cb \in {"on_data", "on_order_fill"}
    /\ runner.ncalls < MaxCalls
    /\ runner.norders < runner.max_orders
    /\ \E side \in Sides,
          quantity \in {q \in OrderQuantities : q >= runner.min_quantity},
          symbol \in runner.symbols :
          LET called == [runner EXCEPT !.ncalls = @ + 1, !.norders = @ + 1]
          IN  runner' =
                IF _is_time_locked(runner.time_locks, now)
                THEN [called EXCEPT !.last_ret = <<>>, !.last_verdict = "time_locked"]
                ELSE [called EXCEPT
                        !.last_ret = <<"PT", runner.next_id>>,
                        !.last_verdict = "queued",
                        !.next_id = @ + 1,
                        !.order_queue = Append(@,
                            OrderEvent(runner.next_id, symbol, side, quantity, now))]
    /\ UNCHANGED <<mode, now, portfolio, hist, risk, rlast>>

\* the strategy callback returns; after on_data _process_orders runs again
PaperCallbackReturn ==
    /\ mode = "paper"
    /\ runner.cb \in {"on_data", "on_order_fill"}
    /\ runner' = IF runner.cb = "on_order_fill"
                 THEN [runner EXCEPT !.cb = "none"]
                 ELSE [runner EXCEPT !.cb = "none", !.pc = "orders_again",
                                     !.idx = 1, !.still_pending = <<>>,
                                     !.detached = FALSE, !.iter_list = <<>>]
    /\ UNCHANGED <<mode, now, portfolio, hist, risk, rlast>>

\* shutdown(): _running cleared, the ticker stopped, on_stop called.  It has
\* no await, so it runs while no other coroutine of the event loop does.
PaperShutdown ==
    /\ mode = "paper"
    /\ runner.pc = "idle"
    /\ ~runner.stopped
    /\ runner.ops < MaxOps
    /\ runner' = [runner EXCEPT !.running = FALSE, !.nstop = @ + 1,
                                !.stopped = TRUE, !.ops = @ + 1,
                                !.open_at_stop = Len(portfolio.positions)]
    /\ UNCHANGED <<mode, now, portfolio, hist, risk, rlast>>

\* pause()
PaperPause ==
    /\ mode = "paper"
    /\ runner.pc = "idle"
    /\ runner.ops < MaxOps
    /\ runner' = [runner EXCEPT !.paused = TRUE, !.ops = @ + 1]
    /\ UNCHANGED <<mode, now, portfolio, hist, risk, rlast>>

\* resume()
PaperResume ==
    /\ mode = "paper"
    /\ runner.pc = "idle"
    /\ runner.ops < MaxOps
    /\ runner' = [runner EXCEPT !.paused = FALSE, !.ops = @ + 1]
    /\ UNCHANGED <<mode, now, portfolio, hist, risk, rlast>>

\* start() called again on a runner that was stopped
PaperRestart ==
    /\ mode = "paper"
    /\ runner.pc = "idle"
    /\ runner.stopped
    /\ runner.ops < MaxOps
    /\ runner' = [runner EXCEPT !.running = TRUE, !.ops = @ + 1]
    /\ UNCHANGED <<mode, now, portfolio, hist, risk, rlast>>

\* a paper session nobody pauses or stops, whose awaits never give way to
\* another coroutine
PaperNext ==
    \/ PaperStart \/ PaperQuote \/ PaperProcessOrder \/ PaperPersistDone
    \/ PaperOrdersDone \/ PaperPlaceOrder \/ PaperCallbackReturn

\* ... and with the coroutines interleaving and the lifecycle calls
PaperSessionNext ==
    \/ PaperNext \/ PaperSuspend \/ PaperResumeCoroutine
    \/ PaperShutdown \/ PaperPause \/ PaperResume \/ PaperRestart

SpecPaper == PaperInit /\ [][PaperNext]_vars

\* a paper session over two instruments
PaperSymbolsInit ==
    /\ mode = "paper"
    /\ now = SessionStart
    /\ portfolio = Portfolio(InitialCapital)
    /\ hist = HistInit
    /\ risk = RiskManager(TRUE)
    /\ rlast = RlastInit
    /\ runner = [RunnerInit EXCEPT !.symbols = Symbols]

SpecPaperSymbols == PaperSymbolsInit /\ [][PaperNext]_vars

SpecPaperSession == PaperInit /\ [][PaperSessionNext]_vars

\* PaperTradingRunner.get_state_snapshot
get_state_snapshot(rn, pf) ==
    [status |-> SnapshotStatus(rn),
     cash |-> Round2(pf.cash),
     positions |-> pf.positions,
     open_orders |-> Len(rn.order_queue),
     total_trades |-> Len(pf.trades),
     total_charges |-> Round2(pf.total_charges)]

\* GET /sessions/{id}/snapshot: the request handler runs when the event loop
\* is free, which it is while an on_market_data coroutine is suspended
PaperSnapshot ==
    /\ mode = "paper"
    /\ runner.pc = "idle"
    /\ runner.running
    /\ runner' = [runner EXCEPT
                    !.last_snapshot =
                        [taken |-> TRUE,
                         snapshot |-> get_state_snapshot(runner, portfolio),
                         pending |-> Len(SelectSeq(runner.order_queue,
                                         LAMBDA o : o.status = "pending"))]]
    /\ UNCHANGED <<mode, now, portfolio, hist, risk, rlast>>

\* a paper session without time locks whose coroutines interleave and whose
\* snapshot is requested
SnapshotInit ==
    /\ mode = "paper"
    /\ now = SessionStart
    /\ portfolio = Portfolio(InitialCapital)
    /\ hist = HistInit
    /\ risk = RiskManager(TRUE)
    /\ rlast = RlastInit
    /\ runner = [RunnerInit EXCEPT !.min_quantity = 1]

SnapshotNext ==
    \/ PaperNext \/ PaperSuspend \/ PaperResumeCoroutine \/ PaperSnapshot

SpecSnapshot == SnapshotInit /\ [][SnapshotNext]_vars

----------------------------------------------------------------------------
(* Live runner *)

\* realized P&L of the trades closed on the calendar day (IST) of instant t
RECURSIVE DayRealizedPnl(_, _)
DayRealizedPnl(trades, t) ==
    IF trades = <<>> THEN 0
    ELSE (IF DateOf(Head(trades).exit_at) = DateOf(t) THEN Head(trades).pnl ELSE 0)
         + DayRealizedPnl(Tail(trades), t)

\* what the latest order-history entry of the broker may say about an order
BrokerStatuses ==
    {[status |-> "OPEN", average_price |-> 0],
     [status |-> "REJECTED", average_price |-> 0]}
    \cup [status : {"COMPLETE"}, average_price : LivePrices]

LiveInit == SessionInit("live")

\* start(): strategy loaded, on_init called, _running set, reset_daily()
LiveStart ==
    /\ mode = "live"
    /\ runner.pc = "created"
    /\ runner' = [runner EXCEPT !.pc = "idle", !.running = TRUE]
    /\ risk' = reset_daily(risk, now)
    /\ rlast' = [rlast EXCEPT !.reset_mark = Len(rlast.accepted)]
    /\ UNCHANGED <<mode, now, portfolio, hist>>

\* on_market_data up to the loop of _check_order_statuses.  A stopped or
\* paused runner returns at once.
LiveQuote ==
    /\ mode = "live"
    /\ runner.pc = "idle"
    /\ runner.nquotes < runner.max_quotes
    /\ IF QuoteDiscarded(runner)
       THEN /\ runner' = [runner EXCEPT !.nquotes = @ + 1, !.discarded = TRUE]
            /\ UNCHANGED now
       ELSE /\ now' = now + LiveQuoteGap
            /\ runner' = [runner EXCEPT
                    !.prices = [x \in {RunnerSymbol} |-> LiveQuotePrice],
                    \* the live runner keeps no bars: bar_start and
                    \* bar_completed record the bar window of the quote and
                    \* whether it is a later one than the last quote's
                    !.bar_start = _bar_start_time(now + LiveQuoteGap, _tf_seconds),
                    !.bar_completed =
                        /\ runner.bar_start # 0
                        /\ _bar_start_time(now + LiveQuoteGap, _tf_seconds)
                               > runner.bar_start,
                    !.on_data_calls = 0, !.on_tick_calls = 0,
                    !.nquotes = @ + 1,
                    !.handled = FALSE,
                    !.pc = "poll", !.idx = 1,
                    !.poll_len = Len(runner.pending_broker_orders),
                    !.completed_ids = <<>>]
    /\ UNCHANGED <<mode, portfolio, hist, risk, rlast>>

\* the dict grew while the loop was iterating over it: the next step of the
\* iteration raises RuntimeError, which leaves on_market_data
LivePollAbort ==
    /\ mode = "live"
    /\ runner.pc = "poll"
    /\ runner.cb = "none"
    /\ Len(runner.pending_broker_orders) # runner.poll_len
    /\ runner' = [runner EXCEPT !.pc = "idle"]
    /\ UNCHANGED <<mode, now, portfolio, hist, risk, rlast>>

\* _check_order_statuses: one iteration of the loop over the pending orders
LivePollOrder ==
    /\ mode = "live"
    /\ runner.pc = "poll"
    /\ runner.cb = "none"
    /\ Len(runner.pending_broker_orders) = runner.poll_len
    /\ runner.idx <= runner.poll_len
    /\ \E st \in BrokerStatuses :
          LET info == runner.pending_broker_orders[runner.idx]
              fill == [symbol |-> info.symbol, side |-> info.side,
                       quantity |-> info.quantity, fill_price |-> st.average_price,
                       commission |-> 0, timestamp |-> now]
              next == [runner EXCEPT !.idx = @ + 1]
          IN  IF st.status = "OPEN"
              THEN runner' = next /\ UNCHANGED <<portfolio, hist>>
              ELSE IF st.status = "REJECTED"
              THEN /\ runner' = [next EXCEPT !.completed_ids = Append(@, info.order_id)]
                   /\ UNCHANGED <<portfolio, hist>>
              ELSE IF update_on_fill_raises(portfolio, fill)
              THEN /\ runner' = [next EXCEPT !.pc = "idle"]
                   /\ UNCHANGED <<portfolio, hist>>
              ELSE /\ portfolio' = update_on_fill(portfolio, fill)
                   /\ hist' = HistFill(hist, portfolio, fill)
                   /\ runner' = [Noting(next, "fill") EXCEPT
                                   !.completed_ids = Append(@, info.order_id),
                                   !.filled_ids = Append(@, info.order_id),
                                   !.cb = "on_order_fill", !.ncalls = 0]
    /\ UNCHANGED <<mode, now, risk, rlast>>

\* the loop ends: the completed ids are popped and on_data is called
LivePollDone ==
    /\ mode = "live"
    /\ runner.pc = "poll"
    /\ runner.cb = "none"
    /\ Len(runner.pending_broker_orders) = runner.poll_len
    /\ runner.idx > runner.poll_len
    /\ runner' = [runner EXCEPT
                    !.pending_broker_orders =
                        SelectSeq(@, LAMBDA info :
                            \A k \in 1..Len(runner.completed_ids) :
                                runner.completed_ids[k] # info.order_id),
                    !.completed_ids = <<>>,
                    !.pc = "on_data", !.cb = "on_data", !.ncalls = 0,
                    !.on_data_calls = @ + 1]
    /\ UNCHANGED <<mode, now, portfolio, hist, risk, rlast>>

\* LiveTradingContext.buy / sell ignoring the verdict of the risk manager
place_after_validate_unchecked(rn, allowed, o, placed) ==
    [rn EXCEPT
        !.nplace = @ + 1,
        !.last_place = o,
        !.last_sent = TRUE,
        !.next_id = IF placed THEN @ + 1 ELSE @,
        !.pending_broker_orders =
            IF placed THEN Append(@, [order_id |-> rn.next_id, symbol |-> o.symbol,
                                      side |-> o.side, quantity |-> o.quantity])
            ELSE @]

\* LiveTradingContext.buy / sell after the validate_order call: a rejected
\* order returns at once, an accepted one goes to executor.place_order, and is
\* kept in _pending_broker_orders when the broker took it (placed)
place_after_validate(rn, allowed, o, placed) ==
    IF ~allowed THEN [rn EXCEPT !.last_sent = FALSE]
    ELSE [rn EXCEPT
            !.nplace = @ + 1,
            !.last_place = o,
            !.last_sent = TRUE,
            !.next_id = IF placed THEN @ + 1 ELSE @,
            !.pending_broker_orders =
                IF placed THEN Append(@, [order_id |-> rn.next_id, symbol |-> o.symbol,
                                          side |-> o.side, quantity |-> o.quantity])
                ELSE @]

\* the order id LiveTradingContext.buy / sell returns: "REJECTED-" and the
\* head of the reason, the broker's order id, or "LIVE-" and a random hex
\* string when place_order failed
live_order_id(res, placed, broker_id) ==
    IF ~res.allowed THEN <<"REJECTED", res.reason>>
    ELSE IF placed THEN <<"KITE", broker_id>>
    ELSE <<"LIVE", 0>>

\* LiveTradingContext.buy / sell, called by the strategy.  The broker takes
\* no order of quantity zero: place_order then reports status failed.
LivePlaceOrder ==
    /\ mode = "live"
    /\ runner.cb # "none"
    /\ runner.ncalls < MaxCalls
    /\ runner.norders < runner.max_orders
    /\ \E side \in Sides, quantity \in OrderQuantities, placed \in BOOLEAN :
          LET o == [symbol |-> RunnerSymbol, side |-> side, quantity |-> quantity,
                    price |-> IF RunnerSymbol \in DOMAIN runner.prices
                              THEN runner.prices[RunnerSymbol] ELSE 0,
                    current_positions |-> portfolio.positions]
              res == validate_order(risk, now, o)
              sent == [symbol |-> o.symbol, side |-> side, quantity |-> quantity,
                       t |-> now]
              rn == [runner EXCEPT
                       !.ncalls = @ + 1, !.norders = @ + 1,
                       !.last_day_pnl = DayRealizedPnl(portfolio.trades, now),
                       !.last_ret = live_order_id(res, placed, runner.next_id),
                       !.last_verdict = IF ~res.allowed THEN "risk_rejected"
                                        ELSE IF placed THEN "placed" ELSE "failed",
                       !.naccepted = IF res.allowed THEN @ + 1 ELSE @,
                       !.last_accepted = IF res.allowed THEN sent ELSE @]
          IN  /\ placed => quantity > 0
              /\ risk' = res.rm
              /\ rlast' = [rlast EXCEPT !.n = @ + 1, !.order = o, !.t = now,
                                        !.pre = risk, !.allowed = res.allowed,
                                        !.reason = res.reason]
              /\ runner' = place_after_validate(rn, res.allowed, sent, placed)
    /\ UNCHANGED <<mode, now, portfolio, hist>>

\* the strategy callback returns; after on_data the position count of the
\* risk manager is refreshed and the handler ends
LiveCallbackReturn ==
    /\ mode = "live"
    /\ runner.cb # "none"
    /\ IF runner.cb = "on_order_fill"
       THEN /\ runner' = [runner EXCEPT !.cb = "none"]
            /\ UNCHANGED risk
       ELSE /\ runner' = [runner EXCEPT !.cb = "none", !.pc = "idle",
                                        !.handled = TRUE]
            /\ risk' = update_position_count(risk, Len(portfolio.positions))
    /\ UNCHANGED <<mode, now, portfolio, hist, rlast>>

\* shutdown(): _running cleared, on_stop called.  on_market_data has no
\* await before its last statement, so shutdown runs between two quotes.
LiveShutdown ==
    /\ mode = "live"
    /\ runner.pc = "idle"
    /\ ~runner.stopped
    /\ runner.ops < MaxOps
    /\ runner' = [runner EXCEPT !.running = FALSE, !.nstop = @ + 1,
                                !.stopped = TRUE, !.ops = @ + 1,
                                !.open_at_stop = Len(portfolio.positions)]
    /\ UNCHANGED <<mode, now, portfolio, hist, risk, rlast>>

\* square_off_all(): the executor places a MARKET order at the broker for
\* each net position the broker reports; _running is cleared.  The orders
\* are not kept in _pending_broker_orders and the ledger is not touched.
LiveSquareOff ==
    /\ mode = "live"
    /\ runner.pc = "idle"
    /\ ~runner.stopped
    /\ runner.ops < MaxOps
    /\ runner' = [runner EXCEPT !.running = FALSE,
                                !.stopped = TRUE, !.ops = @ + 1,
                                !.open_at_stop = Len(portfolio.positions)]
    /\ UNCHANGED <<mode, now, portfolio, hist, risk, rlast>>

\* pause()
LivePause ==
    /\ mode = "live"
    /\ runner.pc = "idle"
    /\ runner.ops < MaxOps
    /\ runner' = [runner EXCEPT !.paused = TRUE, !.ops = @ + 1]
    /\ UNCHANGED <<mode, now, portfolio, hist, risk, rlast>>

\* resume()
LiveResume ==
    /\ mode = "live"
    /\ runner.pc = "idle"
    /\ runner.ops < MaxOps
    /\ runner' = [runner EXCEPT !.paused = FALSE, !.ops = @ + 1]
    /\ UNCHANGED <<mode, now, portfolio, hist, risk, rlast>>

\* start() called again on a runner that was stopped
LiveRestart ==
    /\ mode = "live"
    /\ runner.pc = "idle"
    /\ runner.stopped
    /\ runner.ops < MaxOps
    /\ runner' = [runner EXCEPT !.running = TRUE, !.ops = @ + 1]
    /\ risk' = reset_daily(risk, now)
    /\ rlast' = [rlast EXCEPT !.reset_mark = Len(rlast.accepted)]
    /\ UNCHANGED <<mode, now, portfolio, hist>>

\* a live session nobody pauses or stops
LiveNext ==
    \/ LiveStart \/ LiveQuote \/ LivePollAbort \/ LivePollOrder
    \/ LivePollDone \/ LivePlaceOrder \/ LiveCallbackReturn

\* ... and with the lifecycle calls
LiveSessionNext ==
    \/ LiveNext \/ LiveShutdown \/ LiveSquareOff
    \/ LivePause \/ LiveResume \/ LiveRestart

SpecLive == LiveInit /\ [][LiveNext]_vars

SpecLiveSession == LiveInit /\ [][LiveSessionNext]_vars

----------------------------------------------------------------------------
(* The three runner variants side by side *)

RunnerVariantsInit == BacktestInit \/ PaperInit \/ LiveInit

RunnerVariantsNext == BacktestNext \/ PaperNext \/ LiveNext

SpecRunners == RunnerVariantsInit /\ [][RunnerVariantsNext]_vars

\* time_locks with one window 10:02 - 10:03
LateTimeLock == <<[start |-> <<10, 2>>, end |-> <<10, 3>>]>>

\* a backtest (well-formed bars, fills at the next open) or a paper session
\* whose parameters configure time locks
TimeLocksInit ==
    /\ mode \in {"backtest", "paper"}
    /\ now = IF mode = "paper" THEN SessionStart ELSE 0
    /\ portfolio = Portfolio(InitialCapital)
    /\ hist = HistInit
    /\ risk = RiskManager(TRUE)
    /\ rlast = RlastInit
    /\ \E locks \in (TimeLockConfigs \ {<<>>}) \cup {LateTimeLock} :
          runner = [RunnerInit EXCEPT !.time_locks = locks, !.gaps = FALSE,
                                      !.min_quantity = 1]

TimeLocksNext == BacktestNext \/ PaperNext

SpecTimeLocks == TimeLocksInit /\ [][TimeLocksNext]_vars

\* a paper session whose bars are kept, of a strategy that places one order
BarsInit ==
    /\ mode = "paper"
    /\ now = SessionStart
    /\ portfolio = Portfolio(InitialCapital)
    /\ hist = HistInit
    /\ risk = RiskManager(TRUE)
    /\ rlast = RlastInit
    /\ runner = [RunnerInit EXCEPT !.keep_history = TRUE,
                                   !.min_quantity = MaxQty,
                                   !.max_orders = 1,
                                   !.max_quotes = MaxQuotes + 1]

SpecBars == BarsInit /\ [][PaperNext]_vars

\* a backtest, or a paper session over two instruments whose coroutines
\* interleave, with an end-of-day cutoff in the parameters
SquareOffInit ==
    /\ mode \in {"backtest", "paper"}
    /\ now = IF mode = "paper" THEN SessionStart ELSE 0
    /\ portfolio = Portfolio(InitialCapital)
    /\ hist = HistInit
    /\ risk = RiskManager(TRUE)
    /\ rlast = RlastInit
    /\ \E eod_time \in EodTimes :
          runner = [RunnerInit EXCEPT !.eod_time = eod_time,
                                      !.order_types = {"MARKET", "LIMIT"},
                                      !.symbols = Symbols,
                                      !.gaps = FALSE,
                                      !.min_quantity = MaxQty,
                                      !.max_orders = 2,
                                      !.max_quotes = MaxQuotes + 1]

SquareOffNext ==
    \/ BacktestNext
    \/ PaperNext \/ PaperSuspend \/ PaperResumeCoroutine
    \/ PaperEodPersisted \/ PaperEodSuspend \/ PaperEodResume

SpecSquareOff == SquareOffInit /\ [][SquareOffNext]_vars

\* paper and live sessions that are paused and resumed, of a strategy that
\* places two orders
PausesInit ==
    /\ mode \in {"paper", "live"}
    /\ now = SessionStart
    /\ portfolio = Portfolio(InitialCapital)
    /\ hist = HistInit
    /\ risk = RiskManager(TRUE)
    /\ rlast = RlastInit
    /\ runner = [RunnerInit EXCEPT !.min_quantity = 1, !.max_orders = 2]

PausesNext ==
    \/ PaperNext \/ PaperPause \/ PaperResume
    \/ LiveNext \/ LivePause \/ LiveResume

SpecPauses == PausesInit /\ [][PausesNext]_vars

\* ... with the paper and live sessions paused, stopped and interleaved
SessionsInit == PaperInit \/ LiveInit

SessionsNext == PaperSessionNext \/ LiveSessionNext

SpecSessions == SessionsInit /\ [][SessionsNext]_vars

LifecycleNext == BacktestNext \/ PaperSessionNext \/ LiveSessionNext

SpecLifecycle == RunnerVariantsInit /\ [][LifecycleNext]_vars

----------------------------------------------------------------------------
(* Properties of the ledger *)

LastTrade == portfolio.trades[Len(portfolio.trades)]

EntriesFor(sym) == {i \in 1..Len(portfolio.positions) : portfolio.positions[i].symbol = sym}

\* C1: after any sequence of fills, cash is the initial capital minus the BUY
\* turnover plus the SELL turnover minus all commissions, and total_charges is
\* the sum of all commissions.
C1_CashClosedForm ==
    /\ portfolio.cash = InitialCapital - hist.buy_turnover + hist.sell_turnover
                        - hist.commission
    /\ portfolio.total_charges = hist.commission

\* C1 witness: three fills that paid commission, bought and sold, and closed
\* two trades (a reduce or close, and a reversal or second close).
C1_Witness ==
    /\ mode = "ledger"
    /\ hist.nfills = 3
    /\ Len(portfolio.trades) >= 2
    /\ hist.commission > 0
    /\ hist.buy_turnover > 0
    /\ hist.sell_turnover > 0

\* The last operation was the SELL of a BUY Q @ e, SELL Q @ x round trip that
\* started flat: two fills so far, the second one a SELL of the whole LONG.
RoundTripDone ==
    /\ mode = "ledger"
    /\ hist.op = "fill"
    /\ hist.nfills = 2
    /\ hist.fill.side = "SELL"
    /\ hist.pre_pos # NoPos
    /\ hist.pre_pos.side = "LONG"
    /\ hist.pre_pos.quantity = hist.fill.quantity

\* C2: a BUY Q @ e then SELL Q @ x from flat appends exactly one Trade with
\* pnl = (x - e) * Q and net_pnl = pnl minus the commission of both fills, and
\* leaves no position.  (hist.commission is the commission of the two fills.)
C2_RoundTripNetOfAllCommission ==
    RoundTripDone =>
        /\ Len(portfolio.trades) = hist.pre_ntrades + 1
        /\ LastTrade.pnl = (hist.fill.fill_price - hist.pre_pos.avg_price)
                           * hist.fill.quantity
        /\ LastTrade.net_pnl = LastTrade.pnl - hist.commission
        /\ EntriesFor(hist.fill.symbol) = {}

\* The last operation was a fill that opposed an open position of smaller
\* quantity.
ReversalDone ==
    /\ hist.op = "fill"
    /\ hist.pre_pos # NoPos
    /\ \/ hist.fill.side = "SELL" /\ hist.pre_pos.side = "LONG"
       \/ hist.fill.side = "BUY" /\ hist.pre_pos.side = "SHORT"
    /\ hist.fill.quantity > hist.pre_pos.quantity

\* C3: a reversing fill appends exactly one Trade of the old quantity and side
\* and leaves exactly one position for the symbol, on the opposite side, of
\* quantity Q2 - Q1 at the fill price; no state shows two positions for a
\* symbol or a position of quantity zero.
C3_Reversal ==
    /\ ReversalDone =>
        /\ Len(portfolio.trades) = hist.pre_ntrades + 1
        /\ LastTrade.quantity = hist.pre_pos.quantity
        /\ LastTrade.side = hist.pre_pos.side
        /\ Cardinality(EntriesFor(hist.fill.symbol)) = 1
        /\ LET pos == PosGet(portfolio.positions, hist.fill.symbol)
           IN  /\ pos.side = (IF hist.fill.side = "BUY" THEN "LONG" ELSE "SHORT")
               /\ pos.quantity = hist.fill.quantity - hist.pre_pos.quantity
               /\ pos.avg_price = hist.fill.fill_price
    /\ \A sym \in Symbols : Cardinality(EntriesFor(sym)) <= 1
    /\ \A i \in 1..Len(portfolio.positions) : portfolio.positions[i].quantity # 0

\* C3 witness: a BUY of 2 against a SHORT of 1
C3_Witness ==
    /\ ReversalDone
    /\ hist.fill.side = "BUY"
    /\ hist.pre_pos.quantity = 1
    /\ hist.fill.quantity = 2

\* C4: close_all_positions on N open positions appends exactly N Trades,
\* returns N Trades, leaves no open position and adds nothing to total_charges.
C4_CloseAll ==
    hist.op = "close_all" =>
        /\ Len(portfolio.trades) = hist.pre_ntrades + hist.pre_npos
        /\ hist.nret = hist.pre_npos
        /\ Len(portfolio.positions) = 0
        /\ portfolio.total_charges = hist.pre_charges

\* C4 witness: two positions, one LONG and one SHORT, were closed
C4_Witness ==
    /\ hist.op = "close_all"
    /\ hist.pre_npos = 2
    /\ \E i, j \in 1..Len(portfolio.trades) :
          portfolio.trades[i].side = "LONG" /\ portfolio.trades[j].side = "SHORT"
    /\ hist.pre_charges > 0

----------------------------------------------------------------------------
(* Properties of the risk manager *)

CheckOrder ==
    <<"market_closed", "position_size", "order_value", "daily_loss",
      "max_positions", "rate_limit">>

\* The manager the checks of the last call were made on
CheckedManager ==
    IF DateOf(rlast.t) # rlast.pre._daily_date
    THEN reset_daily(rlast.pre, rlast.t) ELSE rlast.pre

\* the i-th check fails for the last call
FailsCheck(i) ==
    CASE i = 1 -> FailsMarketHours(CheckedManager, rlast.t)
      [] i = 2 -> FailsPositionSize(rlast.order)
      [] i = 3 -> FailsOrderValue(rlast.order)
      [] i = 4 -> FailsDailyLoss(CheckedManager)
      [] i = 5 -> FailsOpenPositions(CheckedManager, rlast.order)
      [] i = 6 -> FailsRateLimit(CheckedManager, rlast.t)

FailingChecks == {i \in 1..6 : FailsCheck(i)}

\* the last call passed the checks 1..5
PassesFirstFive == FailingChecks \subseteq {6}

\* C8 as claimed: a call that finds max_orders_per_minute accepted orders in
\* the 60 seconds before it is rejected for the rate, and a call that finds
\* fewer is accepted (calls failing another check aside).
C8_RollingWindow ==
    (rlast.order # NoOrder /\ PassesFirstFive) =>
        IF rlast.recent >= RiskConfig.max_orders_per_minute
        THEN ~rlast.allowed /\ rlast.reason = "rate_limit"
        ELSE rlast.allowed

\* C8 amended: the window holds the orders accepted in the 60 seconds before
\* the call and after the last daily reset.
C8_RollingWindowSinceReset ==
    (rlast.order # NoOrder /\ PassesFirstFive) =>
        IF rlast.recent_since_reset >= RiskConfig.max_orders_per_minute
        THEN ~rlast.allowed /\ rlast.reason = "rate_limit"
        ELSE rlast.allowed

\* C8 witness: a third order is accepted on the day of the first two, 60 s
\* after the first of them, and a call rejected for the rate lies in between.
C8_Witness ==
    /\ rlast.order # NoOrder
    /\ rlast.allowed
    /\ rlast.nrate >= 1
    /\ Len(rlast.accepted) = RiskConfig.max_orders_per_minute + 1
    /\ rlast.reset_mark = 0
    /\ rlast.t = rlast.accepted[1] + 60

\* C9: the reason returned is that of the first failing check in the order
\* hours, size, value, daily loss, open positions, rate; the order is accepted
\* exactly when no check fails.
C9_FirstFailingCheck ==
    rlast.order # NoOrder =>
        IF FailingChecks = {}
        THEN rlast.allowed /\ rlast.reason = "none"
        ELSE /\ ~rlast.allowed
             /\ \E i \in FailingChecks :
                   /\ \A j \in FailingChecks : i <= j
                   /\ rlast.reason = CheckOrder[i]

\* C9 witness: an order failing the value check, the daily-loss check and the
\* open-positions check is rejected for its value
C9_Witness ==
    /\ rlast.order # NoOrder
    /\ {3, 4, 5} \subseteq FailingChecks
    /\ rlast.reason = "order_value"

----------------------------------------------------------------------------
(* Properties of the runners *)

\* C5: in every ledger state a runner reaches, every position has a positive
\* quantity, no symbol has two entries, and a position that a fill closed
\* entirely has no entry left.
C5_PositionsWellFormed ==
    /\ \A i \in 1..Len(portfolio.positions) : portfolio.positions[i].quantity > 0
    /\ \A sym \in Symbols : Cardinality(EntriesFor(sym)) <= 1
    /\ (/\ hist.op = "fill"
        /\ hist.pre_pos # NoPos
        /\ hist.pre_pos.side = (IF hist.fill.side = "BUY" THEN "SHORT" ELSE "LONG")
        /\ hist.fill.quantity = hist.pre_pos.quantity)
       => EntriesFor(hist.fill.symbol) = {}

\* the runner has processed a step to its end: a bar in a backtest, a quote
\* in a paper or live session
StepProcessed ==
    \/ mode = "backtest" /\ runner.pc = "bar" /\ runner.bar_index >= 0
    \/ mode \in {"paper", "live"} /\ runner.pc = "idle" /\ runner.handled

\* the prices the runner marks its positions at
CurrentPrices ==
    IF mode = "backtest" THEN BarPrices(runner.bar) ELSE runner.prices

\* C6: in every runner variant, after each processed step the last point of
\* the equity curve is cash plus the mark-to-market value of the open
\* positions at the current prices.
C6_EquityPointAfterStep ==
    StepProcessed =>
        /\ portfolio.equity_curve # <<>>
        /\ portfolio.equity_curve[Len(portfolio.equity_curve)].equity
              = get_portfolio_value(portfolio, CurrentPrices)

\* C7: in the live runner a buy / sell that validate_order rejected makes no
\* place_order call, and every place_order call is for an order that
\* validate_order accepted just before.
C7_NoOrderPastRiskManager ==
    mode = "live" =>
        /\ (rlast.order # NoOrder /\ ~rlast.allowed) => ~runner.last_sent
        /\ runner.nplace <= runner.naccepted
        /\ runner.last_place = runner.last_accepted

\* C7 witness: an order was placed at the broker and a later buy / sell was
\* rejected by the risk manager
C7_Witness ==
    /\ mode = "live"
    /\ runner.nplace >= 1
    /\ rlast.order # NoOrder
    /\ ~rlast.allowed
    /\ ~runner.last_sent
    /\ rlast.n > runner.nplace

\* C10: in a live run a buy / sell made when the realized P&L of the trades
\* closed that day is below -daily_loss_limit is rejected by the risk manager
\* and does not reach the broker.
C10_DailyLossStopsOrders ==
    (/\ mode = "live"
     /\ rlast.order # NoOrder
     /\ runner.last_day_pnl < -RiskConfig.daily_loss_limit)
    => (~rlast.allowed /\ ~runner.last_sent)

----------------------------------------------------------------------------
(* Properties of the Context API *)

\* C11: in every runner variant a buy / sell call rejected by a time-lock
\* window or by a Risk Manager check returns the empty string, and a call
\* that returns a non-empty id has created an order.
C11_RejectedReturnsEmpty ==
    /\ runner.last_verdict \in {"time_locked", "risk_rejected"}
           => runner.last_ret = <<>>
    /\ runner.last_ret # <<>> => runner.last_verdict \in {"queued", "placed"}

----------------------------------------------------------------------------
(* Properties of the live order polling *)

\* C12: in the Live Runner a COMPLETE order's fill is applied to the
\* portfolio exactly once and on_order_fill is invoked exactly once for it,
\* also when the strategy places new orders from inside on_order_fill; an
\* order that reached a terminal status is no longer outstanding once the
\* quote has been processed.
C12_FillAppliedOnce ==
    mode = "live" =>
        /\ \A i, j \in 1..Len(runner.filled_ids) :
               runner.filled_ids[i] = runner.filled_ids[j] => i = j
        /\ runner.pc = "idle" =>
               \A k \in 1..Len(runner.pending_broker_orders) :
                  \A i \in 1..Len(runner.filled_ids) :
                     runner.filled_ids[i] # runner.pending_broker_orders[k].order_id

----------------------------------------------------------------------------
(* Properties of the session lifecycle *)

\* C13: once stop (shutdown) has returned for a Paper or Live Runner, the
\* status reported by get_state_snapshot is stopped, and no later pause(),
\* resume(), start() or incoming quote changes that.
C13_StoppedStaysStopped ==
    (mode \in {"paper", "live"} /\ runner.stopped)
        => SnapshotStatus(runner) = "stopped"

\* C14: in every runner variant, when stop completes for a run that passed
\* on_init, on_stop has been invoked exactly once and the ledger has zero
\* open positions: at the backtest's end of data, at a Paper / Live
\* shutdown and on the Live emergency square-off path.
C14_StopClosesPositions ==
    (runner.stopped /\ runner.status # "failed")
        => runner.nstop = 1 /\ runner.open_at_stop = 0

\* C15: after stop has returned for a Paper or Live Runner no strategy
\* callback is invoked, no order is filled and no portfolio state changes,
\* also when stop was called while a quote was being processed.
C15_NothingAfterStop ==
    mode \in {"paper", "live"} => runner.after_stop = {}

\* C16: a Paper or Live Runner processes quotes one at a time: the
\* processing of quote k+1 does not begin until the processing of quote k,
\* with its fills and portfolio updates, has completed.
C16_OneQuoteAtATime ==
    (mode \in {"paper", "live"} /\ runner.pc \notin {"created", "idle"})
        => runner.suspended = <<>>


\* the last execute_order call of the backtest, if there was one
Evaluated == runner.last_eval # [bar_index |-> -1]

\* C17: with fill_at = next_open an order queued on bar N is never evaluated
\* against bar N; a MARKET order is evaluated at bar N+1, before that bar's
\* on_data, and where bar N+1 has data it fills at that bar's open moved by
\* slippage (up for BUY, down for SELL) with the timestamp of bar N+1
C17_NextOpenFillsNextBar ==
    (mode = "backtest" /\ runner.fill_at = "next_open") =>
        /\ \A k \in 1..Len(runner.pending_orders) :
              (runner.pending_orders[k].status = "pending" /\ runner.pc = "on_data")
                  => /\ runner.pending_orders[k].order_type # "MARKET"
                     /\ runner.pending_orders[k].timestamp < runner.bar_index
        /\ Evaluated =>
              LET e == runner.last_eval
              IN  /\ e.order.timestamp < e.bar_index
                  /\ e.order.order_type = "MARKET" =>
                        /\ e.bar_index = e.order.timestamp + 1
                        /\ e.bar.missing => e.fill = NoFill
                        /\ ~e.bar.missing =>
                              /\ e.fill.fill_price = _apply_slippage(e.bar.open, e.order.side)
                              /\ e.order.side = "BUY" => e.fill.fill_price >= e.bar.open
                              /\ e.order.side = "SELL" => e.fill.fill_price <= e.bar.open
                              /\ e.fill.timestamp = e.bar_index

C17_Witness ==
    /\ mode = "backtest" /\ runner.fill_at = "next_open"
    /\ Evaluated
    /\ runner.last_eval.order.order_type = "MARKET"
    /\ runner.last_eval.order.side = "SELL"
    /\ runner.last_eval.order.timestamp = 1
    /\ runner.last_eval.bar_index = 2
    /\ runner.last_eval.fill # NoFill
    /\ runner.last_eval.fill.fill_price < runner.last_eval.bar.open


\* C18: with fill_at = current_close a MARKET order queued during on_data of
\* bar N is filled on bar N itself, at bar N's close moved by slippage: it is
\* not left waiting when on_data of bar N has returned, and the bar it is
\* filled on is the bar it was queued on
C18_CurrentCloseFillsSameBar ==
    (mode = "backtest" /\ runner.fill_at = "current_close") =>
        /\ runner.pc \in {"bar", "done"} =>
              \A k \in 1..Len(runner.pending_orders) :
                  runner.pending_orders[k].order_type = "MARKET"
                      => runner.pending_orders[k].status # "pending"
        /\ (Evaluated /\ runner.last_eval.order.order_type = "MARKET"
                      /\ runner.last_eval.fill # NoFill) =>
              /\ runner.last_eval.bar_index = runner.last_eval.order.timestamp
              /\ runner.last_eval.fill.timestamp = runner.last_eval.order.timestamp
              /\ runner.last_eval.fill.fill_price =
                     _apply_slippage(runner.last_eval.bar.close, runner.last_eval.order.side)


\* C19: on every execution bar, in both fill modes, a LIMIT BUY does not fill
\* when the bar's low is above the limit and otherwise fills at a price at or
\* below the limit; a LIMIT SELL does not fill when the bar's high is below
\* the limit and otherwise fills at a price at or above the limit
C19_LimitFillWithinLimit ==
    (Evaluated /\ runner.last_eval.order.order_type = "LIMIT"
               /\ runner.last_eval.order.price # 0
               /\ ~runner.last_eval.bar.missing) =>
        LET e == runner.last_eval
        IN  /\ e.order.side = "BUY" =>
                  IF e.bar.low > e.order.price
                  THEN e.fill = NoFill
                  ELSE e.fill # NoFill /\ e.fill.fill_price <= e.order.price
            /\ e.order.side = "SELL" =>
                  IF e.bar.high < e.order.price
                  THEN e.fill = NoFill
                  ELSE e.fill # NoFill /\ e.fill.fill_price >= e.order.price


\* C20: a LIMIT, SL or SL-M order that does not fill on a bar keeps status
\* pending and stays in the pending set for the next bar, also on a bar where
\* its symbol has no data, and evaluating it never aborts the run
C20_UnfilledStaysPending ==
    (mode = "backtest" /\ Evaluated
        /\ runner.last_eval.order.order_type \in {"LIMIT", "SL", "SL-M"}) =>
        LET e == runner.last_eval
            kept == IF runner.pc = "pending" THEN runner.still_pending
                    ELSE runner.pending_orders
        IN  /\ e.fill # KeyError
            /\ runner.status # "failed" \/ e.fill \notin {NoFill, KeyError}
            /\ (e.fill = NoFill /\ e.bar_index = runner.bar_index) =>
                  \E k \in 1..Len(kept) : kept[k] = e.order /\ kept[k].status = "pending"


\* C21: cancel_order called from a strategy callback for an order that is
\* still pending returns True and that order is never filled afterwards; for
\* an id that is unknown, filled or already cancelled it returns False and
\* changes nothing
C21_CancelPending ==
    mode = "backtest" =>
        /\ runner.last_cancel # [order_id |-> -1] =>
              /\ runner.last_cancel.was_pending => runner.last_cancel.ret
              /\ ~runner.last_cancel.was_pending =>
                    ~runner.last_cancel.ret /\ ~runner.last_cancel.changed
        /\ Evaluated => runner.last_eval.order.seq \notin runner.cancelled


\* C22: in the backtest and the paper runner a MARKET order for which no
\* price can be resolved when it is evaluated is marked rejected and no longer
\* waits for a fill, and the evaluation leaves the portfolio and the run as
\* they were
C22_UnpricedMarketRejected ==
    /\ [](  (mode \in {"backtest", "paper"} /\ Evaluated
               /\ runner.last_eval.order.order_type = "MARKET"
               /\ runner.last_eval.fill = NoFill) =>
              /\ runner.last_eval.order \notin AwaitingFill(runner)
              /\ mode = "paper" =>
                    \A k \in 1..Len(IterList(runner)) :
                        IterList(runner)[k].order_id = runner.last_eval.order.order_id
                            => IterList(runner)[k].status # "pending")
    /\ [][(mode \in {"backtest", "paper"}
            /\ runner'.last_eval # runner.last_eval
            /\ runner'.last_eval.order.order_type = "MARKET"
            /\ runner'.last_eval.fill = NoFill)
               => portfolio' = portfolio /\ runner'.status = runner.status]_vars


\* C23: for a LIMIT or SL order of the Context API the quote simulator on a
\* quote p decides fill / no fill as the bar simulator does on the bar
\* open = high = low = close = p, and a fill has the same price
C23_QuoteMatchesDegenerateBar ==
    (mode = "quote" /\ Evaluated) =>
        /\ (runner.quote_fill = NoFill) <=> (runner.last_eval.fill = NoFill)
        /\ (runner.quote_fill # NoFill /\ runner.last_eval.fill # NoFill) =>
              runner.quote_fill.fill_price = runner.last_eval.fill.fill_price


\* C24: a backtest of B >= 2 bars whose strategy buys 1 unit at MARKET on the
\* first bar and does nothing else ends with status completed, no open
\* position and exactly one trade; a backtest that is created therefore gets a
\* runner to run, and one that has ended is completed with that one trade
C24_BuyOnceCompletes ==
    mode = "backtest" =>
        /\ runner.pc # "raised"
        /\ (/\ runner.pc = "done" /\ runner.norders = 1 /\ Evaluated
             /\ runner.last_eval.bar_index = 1
             /\ runner.last_eval.order.side = "BUY"
             /\ runner.last_eval.order.quantity = 1
             /\ runner.last_eval.fill # NoFill) =>
              /\ runner.status = "completed"
              /\ Len(portfolio.trades) = 1
              /\ portfolio.positions = <<>>


\* C25: in a paper session of one symbol a quote that the runner handles
\* completes a bar exactly if it arrives in a later bar window than the bar in
\* progress, and by the end of its handling on_data has been called once if
\* it completed a bar and not at all otherwise, and on_tick exactly once
C25_OnDataPerBarOnTickPerQuote ==
    /\ []((mode = "paper" /\ runner.symbols = {RunnerSymbol} /\ runner.handled) =>
            /\ runner.on_data_calls = IF runner.bar_completed THEN 1 ELSE 0
            /\ runner.on_tick_calls = 1)
    /\ [][(mode = "paper" /\ runner.symbols = {RunnerSymbol}
             /\ runner'.nquotes # runner.nquotes /\ runner'.pc = "orders") =>
               (runner'.bar_completed <=>
                   /\ ~runner.current_bar.missing
                   /\ _bar_start_time(now', _tf_seconds) > runner.bar_start)]_vars

\* ... its part about on_data alone
OnDataPerBar ==
    /\ []((mode = "paper" /\ runner.symbols = {RunnerSymbol} /\ runner.handled) =>
            runner.on_data_calls = IF runner.bar_completed THEN 1 ELSE 0)
    /\ [][(mode = "paper" /\ runner.symbols = {RunnerSymbol}
             /\ runner'.nquotes # runner.nquotes /\ runner'.pc = "orders") =>
               (runner'.bar_completed <=>
                   /\ ~runner.current_bar.missing
                   /\ _bar_start_time(now', _tf_seconds) > runner.bar_start)]_vars

\* C26: the live runner calls on_data only for a quote that closes a bar, one
\* that falls in a later bar window than the quote before it
C26_LiveOnDataOnlyAtBarClose ==
    (mode = "live" /\ runner.cb = "on_data") => runner.bar_completed


\* C27: a backtest whose on_data or on_stop raised still ends with status
\* completed; every bar the loop has handled got exactly one on_data call; the
\* step in which on_data raises stages the orders queued so far, records one
\* equity point and leaves the run running; a backtest whose on_init raised
\* has status failed with no bar taken, no order evaluated and no equity point
C27_StrategyErrors ==
    /\ [](mode = "backtest" =>
            /\ (runner.pc = "done" /\ runner.raised # {} /\ "on_init" \notin runner.raised)
                  => runner.status = "completed"
            /\ (runner.pc = "bar" /\ runner.bar_index >= 0) => runner.on_data_calls = 1
            /\ "on_init" \in runner.raised =>
                  /\ runner.pc = "done" /\ runner.status = "failed"
                  /\ runner.bar_index = -1 /\ runner.on_data_calls = 0
                  /\ ~Evaluated
                  /\ portfolio.trades = <<>> /\ portfolio.positions = <<>>
                  /\ portfolio.equity_curve = <<>>)
    /\ [][(mode = "backtest" /\ "on_data" \notin runner.raised
             /\ "on_data" \in runner'.raised) =>
               /\ runner'.pending_orders = runner.pending_orders \o runner.order_queue
               /\ runner'.order_queue = <<>>
               /\ Len(portfolio'.equity_curve) = Len(portfolio.equity_curve) + 1
               /\ runner'.status = "running"
               /\ runner'.pc = "bar"]_vars

\* an on_data raised on the first bar after queueing an order, that order
\* was filled on a later bar, on_stop raised too and the run has ended
C27_Witness ==
    /\ mode = "backtest"
    /\ runner.raised = {"on_data", "on_stop"}
    /\ runner.pc = "done"
    /\ runner.status = "completed"
    /\ runner.bar_index >= 1
    /\ Evaluated
    /\ runner.last_eval.fill # NoFill
    /\ Len(portfolio.equity_curve) = runner.bar_index + 2


\* C28: get_historical_data(symbol, periods) returns at most `periods` bars,
\* in ascending order of timestamp, none later than the current bar, and they
\* are the most recent bars up to the current one
C28_HistoricalWindow ==
    (mode = "historical" /\ runner.last_hist # [periods |-> -1]) =>
        LET rows == runner.last_hist.rows
            upto == SelectSeq(runner.timestamps,
                        LAMBDA ts : /\ runner.bar_index >= 0
                                    /\ ts <= runner.timestamps[runner.bar_index + 1])
        IN  /\ Len(rows) <= runner.last_hist.periods
            /\ \A k \in 1..(Len(rows) - 1) : rows[k] < rows[k + 1]
            /\ \A k \in 1..Len(rows) :
                  /\ runner.bar_index >= 0
                  /\ rows[k] <= runner.timestamps[runner.bar_index + 1]
            /\ runner.last_hist.symbol = RunnerSymbol =>
                  /\ Len(rows) = Min(runner.last_hist.periods, Len(upto))
                  /\ rows = SubSeq(upto, Len(upto) - Len(rows) + 1, Len(upto))


\* orders of the backtest that the runner holds or evaluated last
PlacedOrders(rn) ==
    {rn.order_queue[k] : k \in 1..Len(rn.order_queue)}
        \cup {rn.pending_orders[k] : k \in 1..Len(rn.pending_orders)}
        \cup (IF rn.last_eval # [bar_index |-> -1] THEN {rn.last_eval.order} ELSE {})

\* C29: no two orders placed during a run share an order id
C29_OrderIdsUnique ==
    mode = "backtest" =>
        \A o1, o2 \in PlacedOrders(runner) :
            o1.seq # o2.seq => o1.order_id # o2.order_id


\* C30: get_open_orders called in a strategy callback of a backtest returns
\* exactly the orders that are awaiting a fill, those staged on earlier bars
\* included
C30_OpenOrdersExact ==
    (mode = "backtest" /\ runner.last_open.called) =>
        runner.last_open.ret = runner.last_open.open



-----------------------------------------------------------------------------
(* Session registry and the lifecycle endpoints *)

MaxRunners == 2        \* runners the start requests create

SessionIds == {"s1", "s2"}

\* sessions created and never started, no runner registered
RegistryInit ==
    /\ runner = [RunnerInit EXCEPT
                    !.pc = "serving",
                    !.db_status = [x \in SessionIds |-> "created"],
                    !.registry = [x \in SessionIds |-> 0]]
    /\ mode = "registry"
    /\ now = 0
    /\ portfolio = Portfolio(InitialCapital)
    /\ hist = HistInit
    /\ risk = RiskManager(TRUE)
    /\ rlast = RlastInit

\* POST /sessions/{id}/start up to its first await after the status check:
\* refused only when the stored status is running
StartSession ==
    /\ mode = "registry"
    /\ Len(runner.started) + Len(runner.requests) < MaxRunners
    /\ \E session_id \in SessionIds :
          /\ runner.db_status[session_id] # "running"
          /\ runner' = [runner EXCEPT
                           !.requests = Append(@, [session_id |-> session_id,
                                                   runner |-> 0])]
    /\ UNCHANGED <<mode, now, portfolio, hist, risk, rlast>>

\* ... the runner is built and started, register_runner stores it under
\* the session id, the ticker is started
StartRegister ==
    /\ mode = "registry"
    /\ \E k \in 1..Len(runner.requests) :
          /\ runner.requests[k].runner = 0
          /\ LET session_id == runner.requests[k].session_id
                 handle == Len(runner.started) + 1
             IN  runner' = [runner EXCEPT
                    !.started = Append(@, [session_id |-> session_id,
                                           running |-> TRUE, paused |-> FALSE]),
                    !.registry[session_id] = handle,
                    !.requests[k].runner = handle]
    /\ UNCHANGED <<mode, now, portfolio, hist, risk, rlast>>

\* ... update_session_status(running), and the request returns
StartDone ==
    /\ mode = "registry"
    /\ \E k \in 1..Len(runner.requests) :
          /\ runner.requests[k].runner # 0
          /\ runner' = [runner EXCEPT
                  !.db_status[runner.requests[k].session_id] = "running",
                  !.requests = SubSeq(@, 1, k - 1) \o SubSeq(@, k + 1, Len(@))]
    /\ UNCHANGED <<mode, now, portfolio, hist, risk, rlast>>

\* POST /sessions/{id}/stop: the registered runner, if any, is shut down and
\* unregistered
StopSession ==
    /\ mode = "registry"
    /\ \E session_id \in SessionIds :
          /\ runner.db_status[session_id] \in {"running", "paused"}
          /\ LET handle == runner.registry[session_id]
             IN  runner' = [runner EXCEPT
                    !.started = IF handle = 0 THEN @
                                ELSE [@ EXCEPT ![handle].running = FALSE],
                    !.registry[session_id] = 0,
                    !.db_status[session_id] = "stopped"]
    /\ UNCHANGED <<mode, now, portfolio, hist, risk, rlast>>

\* POST /sessions/{id}/pause
PauseSession ==
    /\ mode = "registry"
    /\ \E session_id \in SessionIds :
          /\ runner.db_status[session_id] = "running"
          /\ LET handle == runner.registry[session_id]
             IN  runner' = [runner EXCEPT
                    !.started = IF handle = 0 THEN @
                                ELSE [@ EXCEPT ![handle].paused = TRUE],
                    !.db_status[session_id] = "paused"]
    /\ UNCHANGED <<mode, now, portfolio, hist, risk, rlast>>

\* POST /sessions/{id}/resume
ResumeSession ==
    /\ mode = "registry"
    /\ \E session_id \in SessionIds :
          /\ runner.db_status[session_id] = "paused"
          /\ LET handle == runner.registry[session_id]
             IN  runner' = [runner EXCEPT
                    !.started = IF handle = 0 THEN @
                                ELSE [@ EXCEPT ![handle].paused = FALSE],
                    !.db_status[session_id] = "running"]
    /\ UNCHANGED <<mode, now, portfolio, hist, risk, rlast>>

RegistryNext ==
    \/ StartSession \/ StartRegister \/ StartDone
    \/ StopSession \/ PauseSession \/ ResumeSession

SpecRegistry == RegistryInit /\ [][RegistryNext]_vars

\* C31: in a backtest every step of the order loop that applies a fill to the
\* portfolio is followed by the call of on_order_fill, whatever the fill does
\* to the position
C31_FillNotifiesStrategy ==
    [][(/\ mode = "backtest"
        /\ runner.pc = "pending"
        /\ portfolio' # portfolio
        /\ runner'.status # "failed") => runner'.cb = "on_order_fill"]_vars


\* the time t of day lies in one of the windows [start, end) of locks
InLockWindow(locks, t) ==
    LET hour == (t % DaySeconds) \div 3600
        minute == ((t % DaySeconds) % 3600) \div 60
        NotAfter(a, b) == a[1] < b[1] \/ (a[1] = b[1] /\ a[2] <= b[2])
        Before(a, b) == a[1] < b[1] \/ (a[1] = b[1] /\ a[2] < b[2])
    IN  \E k \in 1..Len(locks) :
            /\ NotAfter(locks[k].start, <<hour, minute>>)
            /\ Before(<<hour, minute>>, locks[k].end)

\* time the time locks are compared with: the bar's timestamp, the wall clock
LockClock ==
    IF mode = "backtest" THEN BarTimestamp(runner.bar_index) ELSE now

C33_BadOrderNeverSimulated ==
    (mode \in {"backtest", "paper"} /\ Evaluated) =>
        /\ runner.last_eval.order.quantity > 0
        /\ runner.last_eval.order.order_type \in {"LIMIT", "SL", "SL-M"}
              => runner.last_eval.order.price # 0


\* C34: a snapshot of a paper session counts as open orders exactly the
\* orders that its portfolio fields do not reflect as filled: the pending ones
C34_SnapshotConsistent ==
    (mode = "paper" /\ runner.last_snapshot.taken) =>
        runner.last_snapshot.snapshot.open_orders = runner.last_snapshot.pending


-----------------------------------------------------------------------------
(* Environments of strategy code *)

\* sandbox/allowed_modules.py
ALLOWED_MODULES ==
    {"math", "statistics", "datetime", "decimal", "collections", "itertools",
     "functools"}

BLOCKED_BUILTINS ==
    {"exec", "eval", "compile", "__import__", "open", "input", "breakpoint",
     "exit", "quit", "globals", "locals", "vars", "dir", "getattr", "setattr",
     "delattr", "type", "super", "classmethod", "staticmethod", "memoryview",
     "bytearray"}

\* names of RestrictedPython's safe_builtins (the library's, not in src) that
\* matter here: it has no getattr, type, eval, exec, open or __import__, and
\* its setattr and delattr are guarded ones
safe_builtins ==
    {"None", "True", "False", "abs", "bool", "callable", "chr", "divmod",
     "float", "hash", "id", "int", "isinstance", "issubclass", "len", "ord",
     "pow", "range", "repr", "round", "slice", "str", "tuple", "zip",
     "setattr", "delattr", "Exception", "ValueError", "TypeError", "KeyError",
     "IndexError", "AttributeError", "ZeroDivisionError", "StopIteration"}

\* create_safe_builtins of the validation sandbox
create_safe_builtins ==
    (safe_builtins \ BLOCKED_BUILTINS)
        \cup {"abs", "round", "min", "max", "sum", "len", "range", "enumerate",
              "zip", "sorted", "reversed", "map", "filter", "any", "all",
              "isinstance", "int", "float", "str", "bool", "list", "dict",
              "tuple", "set", "frozenset", "print"}

\* __builtins__ of the namespace _load_strategy executes the code in
LoaderBuiltins ==
    {"__build_class__", "abs", "all", "any", "bool", "dict", "enumerate",
     "filter", "float", "hasattr", "int", "isinstance", "len", "list", "map",
     "max", "min", "print", "range", "reversed", "round", "set", "sorted",
     "str", "sum", "tuple", "type", "zip", "None", "True", "False",
     "Exception", "ValueError", "TypeError", "KeyError", "IndexError",
     "AttributeError", "ZeroDivisionError", "StopIteration", "property",
     "staticmethod", "classmethod", "super", "getattr", "setattr", "delattr",
     "__name__", "__import__"}

\* allowed of _safe_import
SafeImportAllowed ==
    {"math", "datetime", "collections", "itertools", "functools", "decimal",
     "statistics", "dataclasses", "typing", "enum", "copy", "json", "re",
     "numpy", "np", "pandas", "pd"}

\* builtins reachable from strategy code in an environment
Builtins(env) ==
    IF env = "sandbox" THEN create_safe_builtins ELSE LoaderBuiltins

\* modules strategy code can get hold of: the globals create_safe_globals
\* preloads (the sandbox has no __import__), the modules _safe_import lets
\* through
Modules(env) ==
    IF env = "sandbox" THEN ALLOWED_MODULES ELSE SafeImportAllowed

\* names strategy code may refer to, modules it may ask for
BuiltinNames == create_safe_builtins \cup LoaderBuiltins \cup BLOCKED_BUILTINS

ModuleNames == ALLOWED_MODULES \cup SafeImportAllowed \cup {"os", "sys", "socket", "subprocess"}

\* strategy code about to run in the validation sandbox or in the loader of
\* the runners
EnvironmentInit ==
    /\ \E env \in {"sandbox", "loader"} :
          runner = [RunnerInit EXCEPT !.pc = "exec", !.env = env]
    /\ mode = "strategy"
    /\ now = 0
    /\ portfolio = Portfolio(InitialCapital)
    /\ hist = HistInit
    /\ risk = RiskManager(TRUE)
    /\ rlast = RlastInit

\* the code refers to a builtin name
StrategyBuiltin ==
    /\ mode = "strategy"
    /\ \E name \in BuiltinNames :
          runner' = [runner EXCEPT
                       !.last_lookup = [kind |-> "builtin", name |-> name,
                                        found |-> name \in Builtins(runner.env)]]
    /\ UNCHANGED <<mode, now, portfolio, hist, risk, rlast>>

\* the code asks for a module
StrategyModule ==
    /\ mode = "strategy"
    /\ \E name \in ModuleNames :
          runner' = [runner EXCEPT
                       !.last_lookup = [kind |-> "module", name |-> name,
                                        found |-> name \in Modules(runner.env)]]
    /\ UNCHANGED <<mode, now, portfolio, hist, risk, rlast>>

EnvironmentNext == StrategyBuiltin \/ StrategyModule

SpecEnvironment == EnvironmentInit /\ [][EnvironmentNext]_vars

\* C35: no environment strategy code runs in supplies getattr, setattr,
\* delattr, type, eval, exec or open, and a module is available in an
\* environment exactly if it is on the import allow-list, the same in both
C35_NoReflectiveBuiltins ==
    mode = "strategy" =>
        /\ (/\ runner.last_lookup.kind = "builtin"
             /\ runner.last_lookup.name \in {"getattr", "setattr", "delattr", "type",
                                              "eval", "exec", "open"})
               => ~runner.last_lookup.found
        /\ runner.last_lookup.kind = "module" =>
              /\ runner.last_lookup.found <=> runner.last_lookup.name \in ALLOWED_MODULES
              /\ runner.last_lookup.name \in Modules("sandbox")
                    <=> runner.last_lookup.name \in Modules("loader")


\* the paper session is quiescent: no on_market_data call is running or
\* suspended
Quiescent ==
    /\ mode = "paper"
    /\ runner.pc = "idle"
    /\ runner.cb = "none"
    /\ runner.suspended = <<>>

\* C36: at every quiescent point of a paper session each order buy / sell
\* accepted is either pending in the order queue and not filled, or filled
\* exactly once and no longer pending; none is filled twice or lost
C36_FilledOnceNeverDropped ==
    Quiescent =>
        \A id \in 0..(runner.next_id - 1) :
            LET fills == Cardinality({k \in 1..Len(runner.filled_ids) :
                                        runner.filled_ids[k] = id})
                queued == \E k \in 1..Len(runner.order_queue) :
                              /\ runner.order_queue[k].order_id = id
                              /\ runner.order_queue[k].status = "pending"
            IN  \/ queued /\ fills = 0
                \/ ~queued /\ fills = 1


\* runners of a session that are started and not shut down
RunningFor(session_id) ==
    {h \in 1..Len(runner.started) :
        runner.started[h].session_id = session_id /\ runner.started[h].running}

\* C37: every session id has at most one runner that is started, and it is
\* the one the registry maps the id to; a step changes the registry entry of
\* at most one session id
C37_OneRegisteredRunner ==
    /\ [](mode = "registry" =>
            \A session_id \in SessionIds :
                /\ Cardinality(RunningFor(session_id)) <= 1
                /\ \A h \in RunningFor(session_id) : runner.registry[session_id] = h)
    /\ [][mode = "registry" =>
            Cardinality({x \in SessionIds :
                            runner'.registry[x] # runner.registry[x]}) <= 1]_vars


\* C38: a quote delivered to a paused paper or live runner calls nothing and
\* changes no price, bar, queue, broker order or portfolio field, and resume
\* changes nothing but the paused flag
C38_PausedQuoteDiscarded ==
    [][(mode \in {"paper", "live"} /\ runner.running /\ runner.paused) =>
          /\ runner'.nquotes # runner.nquotes =>
                /\ runner' = [runner EXCEPT !.nquotes = @ + 1,
                                             !.discarded = TRUE]
                /\ UNCHANGED <<now, portfolio, hist, risk, rlast>>
          /\ ~runner'.paused =>
                /\ runner' = [runner EXCEPT !.paused = FALSE, !.ops = @ + 1]
                /\ UNCHANGED <<now, portfolio, hist, risk, rlast>>]_vars

C38_Witness ==
    /\ mode \in {"paper", "live"}
    /\ runner.running /\ runner.paused
    /\ runner.discarded
    /\ runner.prices # RunnerInit.prices
    /\ mode = "paper" => portfolio.positions # <<>> /\ ~runner.current_bar.missing
    /\ mode = "live" => runner.pending_broker_orders # <<>>


\* time of the bar or quote the runner is handling
EodClock == IF mode = "backtest" THEN BarTimestamp(runner.bar_index) ELSE now

AtOrAfterCutoff ==
    (TimeOfDay(EodClock) \div 3600) * 60 + (TimeOfDay(EodClock) % 3600) \div 60
        >= runner.eod_time[1] * 60 + runner.eod_time[2]

\* the await of a square-off is still under way
SquareOffUnderWay ==
    \/ runner.pc = "eod_persist"
    \/ \E k \in 1..Len(runner.suspended) : runner.suspended[k].pc = "eod_persist"

\* C39: with a cutoff configured the square-off runs at most once a day, at
\* the first bar or quote at or after the cutoff and before its on_data; it
\* closes every position with a zero-commission fill, one Trade each, and the
\* orders pending at that moment are discarded: none is filled later
C39_SquareOffOnce ==
    /\ []((mode \in {"backtest", "paper"} /\ runner.eod_time # <<>>) =>
            /\ runner.eod_runs <= 1
            /\ runner.eod_runs = 1 => AtOrAfterCutoff
            /\ (mode = "paper" /\ AtOrAfterCutoff) => runner.eod_runs = 1
            /\ (runner.cb = "on_data" /\ AtOrAfterCutoff) => runner.eod_runs = 1
            /\ \A k \in 1..Len(runner.filled_ids) :
                  runner.filled_ids[k] \notin runner.eod_pending
            /\ (mode = "paper" /\ ~SquareOffUnderWay) =>
                  PendingIds(runner.order_queue) \cap runner.eod_pending = {}
            /\ mode = "backtest" =>
                  PendingSeqs(runner.pending_orders) \cap runner.eod_pending = {})
    /\ [][(mode \in {"backtest", "paper"}
             /\ runner'.eod_runs = runner.eod_runs + 1) =>
              /\ portfolio'.positions = <<>>
              /\ Len(portfolio'.trades) = Len(portfolio.trades) + Len(portfolio.positions)
              /\ portfolio'.total_charges = portfolio.total_charges]_vars


\* prices of the aggregated quotes that fall in the timeframe window starting
\* at bar_start, in the order received
WindowPrices(bar_start) ==
    LET idx == {k \in 1..Len(runner.ticks) :
                   /\ runner.ticks[k].t >= bar_start
                   /\ runner.ticks[k].t < bar_start + _tf_seconds}
        nth[n \in 0..Len(runner.ticks)] ==
            IF n = 0 THEN <<>>
            ELSE IF n \in idx THEN Append(nth[n - 1], runner.ticks[n].price)
            ELSE nth[n - 1]
    IN  nth[Len(runner.ticks)]

\* C40: every bar appended to the history starts a whole number of
\* timeframes after midnight, has the first quote of its window as open, the
\* last as close, the largest as high and the smallest as low, and the bars
\* are appended in strictly increasing order of start time
C40_BarsAggregateQuotes ==
    (mode = "paper" /\ runner.keep_history) =>
        /\ \A k \in 1..Len(runner.history) :
              LET bar == runner.history[k]
                  w == WindowPrices(bar.timestamp)
              IN  /\ TimeOfDay(bar.timestamp) % _tf_seconds = 0
                  /\ w # <<>>
                  /\ bar.open = w[1]
                  /\ bar.close = w[Len(w)]
                  /\ \A n \in 1..Len(w) : bar.low <= w[n] /\ w[n] <= bar.high
                  /\ \E n \in 1..Len(w) : bar.high = w[n]
                  /\ \E n \in 1..Len(w) : bar.low = w[n]
        /\ \A j, k \in 1..Len(runner.history) :
              j < k => runner.history[j].timestamp < runner.history[k].timestamp

C40_Witness ==
    /\ mode = "paper"
    /\ Len(runner.history) = 2
    /\ LET bar == runner.history[1]
       IN  /\ Len(WindowPrices(bar.timestamp)) = 2
           /\ bar.open = bar.high
           /\ bar.close = bar.low
           /\ bar.low < bar.high

====
